---- MODULE Spec2Model ----
(***************************************************************************)
(* Model of the Vegas+ prediction engine                                   *)
(* (src/backend/services/prediction_engine.py) over the SQLite tables it   *)
(* reads.                                                                  *)
(*                                                                         *)
(* Numbers.  Every float of the engine is carried in fixed point, in       *)
(* thousandths ("milli"): 20.7 is 20700.  The weights exp(-decay*k) are    *)
(* tabulated to three decimals; divisions are floor divisions.  Quantities *)
(* compared against thresholds are compared exactly, by cross              *)
(* multiplication.                                                         *)
(*                                                                         *)
(* Strings that the code parses (odds, "made-attempted") are sequences of  *)
(* one-character strings, parsed as SQLite and Python parse them.          *)
(* An optional value (Python None / SQL NULL for a number) is <<>> or      *)
(* <<x>>.                                                                  *)
(***************************************************************************)
EXTENDS Integers, Sequences, FiniteSets, TLC

VARIABLES
  basic_events,      \* table basic_events: completed games
  player_boxscores,  \* table player_boxscores
  team_boxscores,    \* table team_boxscores
  player_props,      \* table player_props: sportsbook quotes
  athletes,          \* table athletes
  teams,             \* table teams
  predictions,       \* table predictions: the saved predictions
  ret,               \* the last call of the engine: its arguments, locals and outcome
  threads,           \* the calls running at once: position and outcome
  frames,            \* the local variables of the calls running at once
  cache,             \* SimpleCache._cache: key -> (value, expiry)
  clock              \* the reading datetime.now() gives

vars == <<basic_events, player_boxscores, team_boxscores, player_props, athletes, teams,
          predictions, ret, threads, frames, cache, clock>>

tables == <<basic_events, player_boxscores, team_boxscores, player_props, athletes, teams,
            predictions>>

\* the calls running at once
concurrent == <<threads, frames>>

\* the response cache and its clock
cached == <<cache, clock>>

\* the tables the ingestion scripts fill
feeds == <<basic_events, player_boxscores, team_boxscores, player_props, athletes, teams>>

----------------------------------------------------------------------------
(* Bounds of the model *)

\* completed games are 1..NGames, one per date; game NGames+1 is upcoming
NGames == 5

\* at most this many quotes per (player, game, prop type)
MaxQuotes == 2

\* at most this many saved predictions
MaxSaved == 2

----------------------------------------------------------------------------
(* Generic helpers *)

Some(x) == <<x>>
NoneV == <<>>
IsNone(o) == o = <<>>
Val(o) == o[1]

Abs(x) == IF x < 0 THEN 0 - x ELSE x

Min(a, b) == IF a < b THEN a ELSE b

RECURSIVE SumSeq(_)
SumSeq(s) == IF s = <<>> THEN 0 ELSE s[1] + SumSeq(Tail(s))

\* the last n elements of s (pandas .tail(n))
TailN(s, n) == IF Len(s) <= n THEN s ELSE SubSeq(s, Len(s) - n + 1, Len(s))

\* the rows of S as the sequence ORDER BY date ASC puts them (dates within S differ)
OrderByDateAsc(S) ==
  [i \in 1..Cardinality(S) |->
     CHOOSE r \in S : Cardinality({x \in S : x.date < r.date}) = i - 1]

\* ... ORDER BY date DESC
OrderByDateDesc(S) ==
  [i \in 1..Cardinality(S) |->
     CHOOSE r \in S : Cardinality({x \in S : x.date > r.date}) = i - 1]

\* thousandths per unit
Milli == 10 * 100

\* x to the nearest multiple of unit, ties to the even multiple
RoundTo(x, unit) ==
  LET a == Abs(x)
      q == a \div unit
      r == a % unit
      up == IF 2 * r > unit THEN 1 ELSE IF 2 * r < unit THEN 0 ELSE q % 2
      m == (q + up) * unit
  IN  IF x < 0 THEN 0 - m ELSE m

\* Python round(x, 1) on a value in thousandths
Round1(x) == RoundTo(x, 100)

----------------------------------------------------------------------------
(* Strings *)

Digits == {"0", "1", "2", "3", "4", "5", "6", "7", "8", "9"}

DigitVal(c) ==
  CASE c = "0" -> 0 [] c = "1" -> 1 [] c = "2" -> 2 [] c = "3" -> 3 [] c = "4" -> 4
    [] c = "5" -> 5 [] c = "6" -> 6 [] c = "7" -> 7 [] c = "8" -> 8 [] c = "9" -> 9

\* SQL NULL in a text column
NullStr == <<"NULL">>

\* str.replace(c, '') and SQL REPLACE(s, c, ''): every occurrence of c is dropped
Replace(s, c) == SelectSeq(s, LAMBDA x : x # c)

\* the length of the longest run of digits of s starting at position i
RECURSIVE DigitRun(_, _)
DigitRun(s, i) ==
  IF i <= Len(s) /\ s[i] \in Digits THEN 1 + DigitRun(s, i + 1) ELSE 0

\* the number written by the digits s[i..j]
RECURSIVE DigitsValue(_, _, _)
DigitsValue(s, i, j) ==
  IF j < i THEN 0 ELSE DigitsValue(s, i, j - 1) * 10 + DigitVal(s[j])

\* SQLite CAST(text AS INTEGER): the longest integer prefix, 0 when there is none
SqlCastInteger(s) ==
  LET signed == Len(s) > 0 /\ s[1] \in {"+", "-"}
      from == IF signed THEN 2 ELSE 1
      n == DigitRun(s, from)
      v == DigitsValue(s, from, from + n - 1)
  IN  IF signed /\ s[1] = "-" THEN 0 - v ELSE v

\* Python int(s): <<v>>, or <<>> where int() raises ValueError
PyInt(s) ==
  LET signed == Len(s) > 0 /\ s[1] \in {"+", "-"}
      from == IF signed THEN 2 ELSE 1
      n == DigitRun(s, from)
      v == DigitsValue(s, from, from + n - 1)
  IN  IF n = 0 \/ from + n - 1 # Len(s) THEN NoneV
      ELSE Some(IF signed /\ s[1] = "-" THEN 0 - v ELSE v)

\* str.split('-')
RECURSIVE SplitDash(_)
SplitDash(s) ==
  IF \A i \in 1..Len(s) : s[i] # "-" THEN <<s>>
  ELSE LET k == CHOOSE i \in 1..Len(s) : s[i] = "-" /\ \A j \in 1..(i - 1) : s[j] # "-"
       IN  <<SubSeq(s, 1, k - 1)>> \o SplitDash(SubSeq(s, k + 1, Len(s)))

\* Python float(s) of an unsigned digit string, in thousandths: <<>> where it raises
PyFloat(s) ==
  IF Len(s) > 0 /\ DigitRun(s, 1) = Len(s) THEN Some(DigitsValue(s, 1, Len(s)) * Milli)
  ELSE NoneV

----------------------------------------------------------------------------
(* PredictionEngine.get_player_game_log *)

StatTypes == {"points", "rebounds", "assists", "steals", "blocks"}

\* before_game_id = None
NoGame == 0

\* the SELECT ... JOIN ... WHERE of get_player_game_log, before ORDER BY
GameLogRows(athlete_id, season) ==
  { [game_id |-> x[1].game_id, season |-> x[1].season,
     athlete_id |-> x[1].athlete_id, team_id |-> x[1].team_id,
     points |-> x[1].points * Milli, rebounds |-> x[1].rebounds * Milli,
     assists |-> x[1].assists * Milli, steals |-> x[1].steals * Milli,
     blocks |-> x[1].blocks * Milli,
     fieldGoalsMade_fieldGoalsAttempted |-> x[1].fieldGoalsMade_fieldGoalsAttempted,
     date |-> x[2].date] :
    x \in { y \in player_boxscores \X basic_events :
              /\ y[1].game_id = y[2].event_id
              /\ y[1].athlete_id = athlete_id
              /\ y[1].season = season
              /\ y[1].athlete_didNotPlay = "0"
              /\ y[1].minutes # "NULL"
              /\ y[1].minutes # "0"
              /\ y[2].event_season_type = 2 } }

\* the frame cut before the row of before_game_id, when the frame has such a row
TruncateBefore(df, before_game_id) ==
  IF before_game_id # NoGame /\ \E i \in 1..Len(df) : df[i].game_id = before_game_id
  THEN LET game_idx == CHOOSE i \in 1..Len(df) :
                         /\ df[i].game_id = before_game_id
                         /\ \A j \in 1..(i - 1) : df[j].game_id # before_game_id
       IN  SubSeq(df, 1, game_idx - 1)
  ELSE df

get_player_game_log(athlete_id, season, before_game_id) ==
  TruncateBefore(OrderByDateAsc(GameLogRows(athlete_id, season)), before_game_id)

----------------------------------------------------------------------------
(* PredictionEngine.get_prop_line *)

prop_type_mapping ==
  [points |-> "Total Points", rebounds |-> "Total Rebounds", assists |-> "Total Assists",
   steals |-> "Total Steals", blocks |-> "Total Blocks"]

\* the sort key of the query: ABS(CAST(REPLACE(over_odds, '+', '') AS INTEGER) - 110)
OddsSortKey(over_odds) == Abs(SqlCastInteger(Replace(over_odds, "+")) - 110)

\* the rows the WHERE clause of get_prop_line keeps
PropRows(athlete_id, game_id, prop_type) ==
  { q \in player_props :
      /\ q.athlete_id = athlete_id
      /\ q.game_id = game_id
      /\ q.prop_type = prop_type
      /\ q.over_odds # NullStr
      /\ q.under_odds # NullStr }

\* the rows ORDER BY ... ASC LIMIT 1 may return: SQL leaves the order of rows with
\* equal keys open, so each row of least key is a possible first row
FirstByOdds(rows) ==
  { q \in rows : \A o \in rows : OddsSortKey(q.over_odds) <= OddsSortKey(o.over_odds) }

\* variant: only the upper end of the range is checked
HasValidOddsUpperOnly(over_odds, under_odds) ==
  LET over_val == PyInt(Replace(over_odds, "+"))
      under_val == PyInt(Replace(under_odds, "+"))
  IN  /\ ~IsNone(over_val)
      /\ ~IsNone(under_val)
      /\ Val(over_val) <= 200
      /\ Val(under_val) <= 200

\* the try/except that parses both odds (lines 124-132)
HasValidOdds(over_odds, under_odds) ==
  LET over_val == PyInt(Replace(over_odds, "+"))
      under_val == PyInt(Replace(under_odds, "+"))
  IN  /\ ~IsNone(over_val)
      /\ ~IsNone(under_val)
      /\ 0 - 200 <= Val(over_val) /\ Val(over_val) <= 200
      /\ 0 - 200 <= Val(under_val) /\ Val(under_val) <= 200

\* what get_prop_line returns for the selected row q
PropDict(q) ==
  [line |-> q.line * 100, has_odds |-> HasValidOdds(q.over_odds, q.under_odds),
   over_odds |-> q.over_odds, under_odds |-> q.under_odds]

\* the set of values get_prop_line may return: <<>> is None, <<d>> the dict d
get_prop_line(athlete_id, game_id, stat_type) ==
  IF stat_type \notin DOMAIN prop_type_mapping THEN {NoneV}
  ELSE LET result == PropRows(athlete_id, game_id, prop_type_mapping[stat_type])
       IN  IF result = {} THEN {NoneV}
           ELSE { Some(PropDict(q)) : q \in FirstByOdds(result) }

----------------------------------------------------------------------------
(* PredictionEngine.get_opponent_recent_defense *)

\* (SELECT date FROM basic_events WHERE event_id = ?): <<>> is NULL
EventDate(game_id) ==
  IF \E be \in basic_events : be.event_id = game_id
  THEN Some((CHOOSE be \in basic_events : be.event_id = game_id).date)
  ELSE NoneV

\* the opponent's games before the target game, with what it allowed in each
OpponentRows(opponent_team_id, game_id, season) ==
  { [game_id |-> x[1].game_id, date |-> x[2].date,
     points_allowed |-> IF x[1].away_team_id = opponent_team_id
                        THEN x[1].home_score * Milli ELSE x[1].away_score * Milli,
     rebounds_allowed |-> IF x[1].away_team_id = opponent_team_id
                          THEN x[1].home_totalRebounds * Milli
                          ELSE x[1].away_totalRebounds * Milli,
     assists_allowed |-> IF x[1].away_team_id = opponent_team_id
                         THEN x[1].home_assists * Milli ELSE x[1].away_assists * Milli] :
    x \in { y \in team_boxscores \X basic_events :
              /\ y[1].game_id = y[2].event_id
              /\ (y[1].away_team_id = opponent_team_id \/ y[1].home_team_id = opponent_team_id)
              /\ y[2].season = season
              /\ y[2].event_season_type = 2
              /\ ~IsNone(EventDate(game_id))
              /\ y[2].date < Val(EventDate(game_id)) } }

\* the columns of the frame that hold what the opponent allowed
AllowedColumns == {"points", "rebounds", "assists"}

\* league_averages.get(stat_type, 0), in thousandths
LeagueAverage(stat_type) ==
  CASE stat_type = "points" -> 114500
    [] stat_type = "rebounds" -> 44000
    [] stat_type = "assists" -> 27000
    [] OTHER -> 0

\* df[stat_column] of a row
Allowed(row, stat_type) ==
  CASE stat_type = "points" -> row.points_allowed
    [] stat_type = "rebounds" -> row.rebounds_allowed
    [] stat_type = "assists" -> row.assists_allowed

\* the mean of a non-empty sequence of numbers
Mean(s) == SumSeq(s) \div Len(s)

\* (opponent_avg - league_avg) * 0.70
DefenseAdjustment(opponent_avg, league_avg) == ((opponent_avg - league_avg) * 70) \div 100

\* n_recent: int = 10
NRecent == 10

\* lines 196-226 for the frame df the query returned; exc = "KeyError" is the
\* exception df[stat_column] raises for a column the frame lacks
DefenseOfFrame(df, stat_type) ==
  IF Len(df) < 3
  THEN [exc |-> "", adjustment |-> 0, opponent_avg |-> NoneV, league_avg |-> NoneV,
        games_analyzed |-> Len(df)]
  ELSE IF stat_type \notin AllowedColumns
  THEN [exc |-> "KeyError", adjustment |-> 0, opponent_avg |-> NoneV,
        league_avg |-> NoneV, games_analyzed |-> Len(df)]
  ELSE LET opponent_avg == Mean([i \in 1..Len(df) |-> Allowed(df[i], stat_type)])
           league_avg == LeagueAverage(stat_type)
       IN  [exc |-> "", adjustment |-> DefenseAdjustment(opponent_avg, league_avg),
            opponent_avg |-> Some(Round1(opponent_avg)),
            league_avg |-> Some(league_avg), games_analyzed |-> Len(df)]

\* LIMIT ?
Limit(rows, n) == SubSeq(rows, 1, Min(n, Len(rows)))

get_opponent_recent_defense(opponent_team_id, game_id, season, stat_type, n_recent) ==
  DefenseOfFrame(Limit(OrderByDateDesc(OpponentRows(opponent_team_id, game_id, season)),
                       n_recent),
                 stat_type)

----------------------------------------------------------------------------
(* PredictionEngine.get_usage_change *)

\* parse_fga: the attempts of a "made-attempted" string, <<>> is NaN
parse_fga(fga_string) ==
  IF fga_string = NullStr \/ fga_string = <<>> THEN NoneV
  ELSE LET parts == SplitDash(fga_string)
       IN  IF Len(parts) = 2 THEN PyFloat(parts[2]) ELSE NoneV

\* Series.mean(): the mean of the values that are not NaN, NaN when there is none
NanMean(s) ==
  LET kept == SelectSeq(s, LAMBDA o : ~IsNone(o))
  IN  IF kept = <<>> THEN NoneV
      ELSE Some(SumSeq([i \in 1..Len(kept) |-> Val(kept[i])]) \div Len(kept))

\* the values of s that are not NaN
NotNan(s) == SelectSeq(s, LAMBDA o : ~IsNone(o))

\* the sum of the values of s that are not NaN
NanSum(s) ==
  LET kept == NotNan(s) IN SumSeq([i \in 1..Len(kept) |-> Val(kept[i])])

\* variant: only a rise of the attempts counts
UsageShiftUpward(recent_sum, recent_n, season_sum, season_n) ==
  5 * (recent_sum * season_n - season_sum * recent_n) > season_sum * recent_n

\* abs((recent_fga - season_fga) / season_fga) > 0.20 for the means
\* recent_fga = recent_sum / recent_n and season_fga = season_sum / season_n > 0,
\* compared exactly
UsageShift(recent_sum, recent_n, season_sum, season_n) ==
  5 * Abs(recent_sum * season_n - season_sum * recent_n) > season_sum * recent_n

NeutralUsage ==
  [usage_change |-> Some(0), increase_recent_weight |-> FALSE,
   recent_fga |-> NoneV, season_fga |-> NoneV, recent_nan |-> FALSE]

\* lines 258-280 for the column fga; usage_change is the relative change in
\* thousandths; recent_nan says that recent_fga and usage_change are NaN (no
\* attempts parsed in the last 5 games)
UsageOfAttempts(fga, season_fga, recent_fga) ==
  IF IsNone(season_fga) \/ season_fga = Some(0) THEN NeutralUsage
  ELSE IF IsNone(recent_fga)
  THEN [usage_change |-> NoneV, increase_recent_weight |-> FALSE,
        recent_fga |-> NoneV, season_fga |-> Some(Round1(Val(season_fga))),
        recent_nan |-> TRUE]
  ELSE [usage_change |->
          Some(((Val(recent_fga) - Val(season_fga)) * Milli) \div Val(season_fga)),
        increase_recent_weight |->
          UsageShift(NanSum(TailN(fga, 5)), Len(NotNan(TailN(fga, 5))),
                     NanSum(fga), Len(NotNan(fga))),
        recent_fga |-> Some(Round1(Val(recent_fga))),
        season_fga |-> Some(Round1(Val(season_fga))), recent_nan |-> FALSE]

\* game_log['fga']
AttemptsColumn(game_log) ==
  [i \in 1..Len(game_log) |-> parse_fga(game_log[i].fieldGoalsMade_fieldGoalsAttempted)]

\* the column fga with its two means
UsageOfColumn(fga) == UsageOfAttempts(fga, NanMean(fga), NanMean(TailN(fga, 5)))

get_usage_change(game_log) ==
  IF Len(game_log) < 5 THEN NeutralUsage ELSE UsageOfColumn(AttemptsColumn(game_log))

----------------------------------------------------------------------------
(* PredictionEngine.get_teammate_context *)

\* the box-score rows the star query averages for one teammate
TeammateRows(star_id, athlete_id, game_id, team_id, season) ==
  { x \in player_boxscores \X basic_events :
      /\ x[1].game_id = x[2].event_id
      /\ x[1].athlete_id = star_id
      /\ x[1].team_id = team_id
      /\ x[1].season = season
      /\ x[1].athlete_didNotPlay = "0"
      /\ x[1].athlete_id # athlete_id
      /\ x[2].event_season_type = 2
      /\ ~IsNone(EventDate(game_id))
      /\ x[2].date < Val(EventDate(game_id)) }

RECURSIVE SumPoints(_)
SumPoints(S) ==
  IF S = {} THEN 0
  ELSE LET x == CHOOSE y \in S : TRUE IN x[1].points + SumPoints(S \ {x})

\* GROUP BY athlete HAVING AVG(points) > 15.0, over the athletes of table athletes
Stars(athlete_id, game_id, team_id, season) ==
  { a.athlete_id : a \in
      { b \in athletes :
          LET rows == TeammateRows(b.athlete_id, athlete_id, game_id, team_id, season)
          IN  rows # {} /\ SumPoints(rows) > 15 * Cardinality(rows) } }

\* the stars with a played row in the target game
PlayingStars(star_ids, game_id, team_id) ==
  { pb.athlete_id : pb \in
      { r \in player_boxscores :
          /\ r.game_id = game_id
          /\ r.team_id = team_id
          /\ r.athlete_id \in star_ids
          /\ r.athlete_didNotPlay = "0" } }

\* variant: 12.5% compounded per missing star
BoostCompounded(stars_missing_count) ==
  CASE stars_missing_count = 0 -> 0
    [] stars_missing_count = 1 -> 125
    [] OTHER -> 266

\* stars_missing_count * 0.125, in thousandths
BoostPerStars(stars_missing_count) == stars_missing_count * 125

\* lines 322-366 for the stars found and those of them playing; missing_stars holds
\* the athlete ids of the missing stars
TeammateContextOf(star_ids, playing_ids) ==
  IF star_ids = {}
  THEN [missing_stars |-> {}, adjustment |-> 0, stars_playing |-> 0, stars_total |-> 0]
  ELSE [missing_stars |-> star_ids \ playing_ids,
        adjustment |-> BoostPerStars(Cardinality(star_ids \ playing_ids)),
        stars_playing |-> Cardinality(playing_ids),
        stars_total |-> Cardinality(star_ids)]

\* the stars found, with those of them playing
TeammateContextOfStars(star_ids, game_id, team_id) ==
  TeammateContextOf(star_ids, PlayingStars(star_ids, game_id, team_id))

get_teammate_context(athlete_id, game_id, team_id, season) ==
  TeammateContextOfStars(Stars(athlete_id, game_id, team_id, season), game_id, team_id)

----------------------------------------------------------------------------
(* PredictionEngine.calculate_weighted_average *)

\* decay rates, in hundredths
DecayDefault == 15
DecayUsage == 5

\* exp(-decay * k) in thousandths, k = 0..9
ExpWeight(decay, k) ==
  IF decay = DecayUsage
  THEN <<1000, 951, 905, 861, 819, 779, 741, 705, 670, 638>>[k + 1]
  ELSE <<1000, 861, 741, 638, 549, 472, 407, 350, 301, 259>>[k + 1]

\* np.average(values, weights): the last value has weight exp(0)
calculate_weighted_average(values, n_recent, decay) ==
  IF Len(values) = 0 THEN 0
  ELSE LET v == TailN(values, n_recent)
           n == Len(v)
           w == [i \in 1..n |-> ExpWeight(decay, n - i)]
       IN  SumSeq([i \in 1..n |-> w[i] * v[i]]) \div SumSeq(w)

----------------------------------------------------------------------------
(* PredictionEngine.calculate_statistical_prediction *)

\* game_log[stat_type]
Column(game_log, stat_type) ==
  [i \in 1..Len(game_log) |->
     CASE stat_type = "points" -> game_log[i].points
       [] stat_type = "rebounds" -> game_log[i].rebounds
       [] stat_type = "assists" -> game_log[i].assists
       [] stat_type = "steals" -> game_log[i].steals
       [] stat_type = "blocks" -> game_log[i].blocks]

\* the fewest games of history a prediction needs
MinGames == 3

\* variant: half of the difference
TrendAdjustmentHalf(recent_5, season_avg) == ((recent_5 - season_avg) * 50) \div 100

\* (recent_5 - season_avg) * 0.25
TrendAdjustment(recent_5, season_avg) == ((recent_5 - season_avg) * 25) \div 100

\* prediction *= 1.0 + adjustment
ApplyBoost(prediction, adjustment) == (prediction * (Milli + adjustment)) \div Milli

\* n*sum(v^2) - sum(v)^2 of the values in whole units: n*(n-1) times the sample variance
SpreadTimesN(values) ==
  LET u == [i \in 1..Len(values) |-> values[i] \div Milli]
  IN  Len(u) * SumSeq([i \in 1..Len(u) |-> u[i] * u[i]]) - SumSeq(u) * SumSeq(u)

\* cv < num/den, where cv = std(values) / baseline if baseline > 0 else 1.0 and std is
\* the sample deviation (NaN for one value); baseline is taken in tenths
CvBelow(values, baseline, num, den) ==
  LET n == Len(values)
      bt == baseline \div 100
  IN  IF baseline > 0
      THEN /\ n >= 2
           /\ SpreadTimesN(values) * den * den * 100 < num * num * bt * bt * n * (n - 1)
      ELSE den < num

\* variant: the tier by the coefficient of variation alone
StatConfidenceAnyCount(values, baseline) ==
  IF CvBelow(TailN(values, 10), baseline, 3, 10) THEN "High"
  ELSE IF CvBelow(TailN(values, 10), baseline, 1, 2) THEN "Medium"
  ELSE "Low"

\* the tier of lines 473-478
StatConfidence(values, baseline) ==
  IF CvBelow(TailN(values, 10), baseline, 3, 10) /\ Len(values) >= 10 THEN "High"
  ELSE IF CvBelow(TailN(values, 10), baseline, 1, 2) /\ Len(values) >= 5 THEN "Medium"
  ELSE "Low"

\* variant: for a game without a row of the player, the row of the player's latest
\* game stands in
OpponentResultLatest(athlete_id, game_id) ==
  LET rows == { x \in player_boxscores \X team_boxscores :
                  /\ x[1].game_id = x[2].game_id
                  /\ x[1].athlete_id = athlete_id }
      here == { x \in rows : x[1].game_id = game_id }
      x == IF here # {} THEN CHOOSE y \in here : TRUE
           ELSE CHOOSE y \in rows : \A z \in rows : z[1].game_id <= y[1].game_id
  IN  IF rows = {} THEN NoneV
      ELSE Some([away_team_id |-> x[2].away_team_id,
                 home_team_id |-> x[2].home_team_id, team_id |-> x[1].team_id])

\* the row of opponent_query: <<>> when the player has no box-score row joined to a
\* team box score for the game
OpponentResult(athlete_id, game_id) ==
  LET rows == { x \in player_boxscores \X team_boxscores :
                  /\ x[1].game_id = x[2].game_id
                  /\ x[1].game_id = game_id
                  /\ x[1].athlete_id = athlete_id }
  IN  IF rows = {} THEN NoneV
      ELSE LET x == CHOOSE y \in rows : TRUE
           IN  Some([away_team_id |-> x[2].away_team_id,
                     home_team_id |-> x[2].home_team_id, team_id |-> x[1].team_id])

InsufficientData ==
  [exc |-> "", prediction |-> NoneV, confidence |-> "Low",
   error |-> "Insufficient data (need at least 3 games)"]

\* opponent_team of lines 443-446
OpponentTeam(row) ==
  IF row.team_id = row.away_team_id THEN row.home_team_id ELSE row.away_team_id

\* what the estimator holds for a game without a row of opponent_query:
\* opponent_adj = 0.0 and opponent_info = {} (lines 439-440), teammate_info of line 457
NoOpponentInfo ==
  [exc |-> "", adjustment |-> 0, opponent_avg |-> NoneV, league_avg |-> NoneV,
   games_analyzed |-> NoneV]

NoTeammateInfo == [missing_stars |-> {}, adjustment |-> 0]

\* opponent_info: the dict of get_opponent_recent_defense, with games_analyzed kept
\* as an optional value
OpponentInfo(opponent_defense) ==
  [exc |-> opponent_defense.exc, adjustment |-> opponent_defense.adjustment,
   opponent_avg |-> opponent_defense.opponent_avg,
   league_avg |-> opponent_defense.league_avg,
   games_analyzed |-> Some(opponent_defense.games_analyzed)]

\* the dict of lines 480-494; exc = "KeyError" when get_opponent_recent_defense
\* raised; game_log holds the ids of the games of the frame
EstimateDict(game_log, stat_values, usage_info, decay_rate, baseline, season_avg, recent_5, opponent_info, teammate_info) ==
  IF opponent_info.exc # "" THEN [exc |-> opponent_info.exc]
  ELSE [exc |-> "",
        prediction |->
          Some(ApplyBoost(baseline + TrendAdjustment(recent_5, season_avg)
                            + opponent_info.adjustment,
                          teammate_info.adjustment)),
        confidence |-> StatConfidence(stat_values, baseline),
        baseline |-> baseline,
        season_avg |-> season_avg,
        recent_5 |-> recent_5,
        trend_adj |-> TrendAdjustment(recent_5, season_avg),
        games_used |-> Len(stat_values),
        game_log |-> [i \in 1..Len(game_log) |-> game_log[i].game_id],
        usage_info |-> usage_info,
        decay_rate |-> decay_rate,
        games_analyzed |-> opponent_info.games_analyzed,
        opponent_avg |-> opponent_info.opponent_avg,
        league_avg |-> opponent_info.league_avg,
        missing_stars |-> teammate_info.missing_stars,
        opponent_adj_raw |-> opponent_info.adjustment,
        teammate_adj_raw |-> teammate_info.adjustment,
        opponent_adj |-> Round1(opponent_info.adjustment),
        teammate_boost |-> Round1(teammate_info.adjustment * 100)]

\* lines 413-417 for the column of the stat and the decay rate
EstimateWithBaseline(game_log, stat_values, usage_info, decay_rate, baseline, opponent_info, teammate_info) ==
  EstimateDict(game_log, stat_values, usage_info, decay_rate, baseline, Mean(stat_values),
               IF Len(stat_values) >= 5 THEN Mean(TailN(stat_values, 5)) ELSE baseline,
               opponent_info, teammate_info)

\* lines 406-413
EstimateWithDecay(game_log, stat_values, usage_info, decay_rate, opponent_info, teammate_info) ==
  EstimateWithBaseline(game_log, stat_values, usage_info, decay_rate,
                       calculate_weighted_average(stat_values, 10, decay_rate),
                       opponent_info, teammate_info)

EstimateWithUsage(game_log, stat_type, usage_info, opponent_info, teammate_info) ==
  EstimateWithDecay(game_log, Column(game_log, stat_type), usage_info,
                    IF usage_info.increase_recent_weight THEN DecayUsage ELSE DecayDefault,
                    opponent_info, teammate_info)

\* lines 442-467 for the row of opponent_query
EstimateWithRow(athlete_id, game_id, season, stat_type, game_log, opponent_result) ==
  IF IsNone(opponent_result)
  THEN EstimateWithUsage(game_log, stat_type, get_usage_change(game_log), NoOpponentInfo,
                         NoTeammateInfo)
  ELSE EstimateWithUsage(
         game_log, stat_type, get_usage_change(game_log),
         OpponentInfo(get_opponent_recent_defense(OpponentTeam(Val(opponent_result)),
                                                  game_id, season, stat_type, NRecent)),
         get_teammate_context(athlete_id, game_id, Val(opponent_result).team_id, season))

\* lines 399-404 and on, for the game log read
EstimateFromLog(athlete_id, game_id, season, stat_type, game_log) ==
  IF Len(game_log) < MinGames THEN InsufficientData
  ELSE EstimateWithRow(athlete_id, game_id, season, stat_type, game_log,
                       OpponentResult(athlete_id, game_id))

calculate_statistical_prediction(athlete_id, game_id, season, stat_type) ==
  EstimateFromLog(athlete_id, game_id, season, stat_type,
                  get_player_game_log(athlete_id, season, game_id))

----------------------------------------------------------------------------
(* PredictionEngine.predict_stat *)

\* the season used for a game that basic_events does not hold
DefaultSeason == "2025"

\* variant: the season before the default one for a game not found
ResolveSeasonPrevious(game_id) ==
  IF \E be \in basic_events : be.event_id = game_id
  THEN (CHOOSE be \in basic_events : be.event_id = game_id).season
  ELSE "2024"

\* SELECT season FROM basic_events WHERE event_id = ?, else the default
ResolveSeason(game_id) ==
  IF \E be \in basic_events : be.event_id = game_id
  THEN (CHOOSE be \in basic_events : be.event_id = game_id).season
  ELSE DefaultSeason

\* variant: the two weights exchanged
BlendSwapped(vegas_line, stat_pred_value) == 35 * vegas_line + 65 * stat_pred_value

\* variant: weights that do not add up to one
BlendHeavy(vegas_line, stat_pred_value) == 65 * vegas_line + 45 * stat_pred_value

\* The blend is carried in hundred-thousandths ("fine"), where it is exact:
\* (vegas_line * 0.65) + (stat_pred_value * 0.35)
Blend(vegas_line, stat_pred_value) == 65 * vegas_line + 35 * stat_pred_value

\* a value in thousandths, in hundred-thousandths
Fine(x) == 100 * x

\* round(x, 1) of a value in hundred-thousandths, in thousandths
Round1Fine(x) == RoundTo(x, 10000) \div 100

\* disagreement < pct/100, where disagreement = abs(edge) / vegas_line if vegas_line > 0
\* else 0 (edge and vegas_line in hundred-thousandths)
DisagreementBelow(edge, vegas_line, pct) ==
  IF vegas_line > 0 THEN Abs(edge) * 100 < pct * vegas_line ELSE 0 < pct

\* variant: the High tier without the check of the odds
HighRecommendationNoGate(edge, has_valid_odds) ==
  IF Abs(edge) < 50000 THEN "Pass" ELSE IF edge > 0 THEN "Over" ELSE "Under"

\* lines 556-560: the recommendation of the High tier
HighRecommendation(edge, has_valid_odds) ==
  IF has_valid_odds
  THEN IF Abs(edge) < 50000 THEN "Pass" ELSE IF edge > 0 THEN "Over" ELSE "Under"
  ELSE "Pass (Alt Line)"

\* variant: the Medium tier with the threshold of the High tier
MediumRecommendationHalf(edge, has_valid_odds) ==
  IF has_valid_odds
  THEN IF edge >= 50000 THEN "Over" ELSE IF edge <= 0 - 50000 THEN "Under" ELSE "Pass"
  ELSE "Pass (Alt Line)"

\* lines 563-567: the recommendation of the Medium tier
MediumRecommendation(edge, has_valid_odds) ==
  IF has_valid_odds
  THEN IF edge >= 100000 THEN "Over" ELSE IF edge <= 0 - 100000 THEN "Under" ELSE "Pass"
  ELSE "Pass (Alt Line)"

\* variant: the Low tier asking for an edge of 3.0 points
LowRecommendationStrict(edge, has_valid_odds) ==
  IF has_valid_odds
  THEN IF edge >= 300000 THEN "Over" ELSE IF edge <= 0 - 300000 THEN "Under" ELSE "Pass"
  ELSE "Pass"

\* variant: the Low tier answering off the main line as the other tiers do
LowRecommendationAlt(edge, has_valid_odds) ==
  IF has_valid_odds
  THEN IF edge >= 200000 THEN "Over" ELSE IF edge <= 0 - 200000 THEN "Under" ELSE "Pass"
  ELSE "Pass (Alt Line)"

\* lines 570-574: the recommendation of the Low tier
LowRecommendation(edge, has_valid_odds) ==
  IF has_valid_odds
  THEN IF edge >= 200000 THEN "Over" ELSE IF edge <= 0 - 200000 THEN "Under" ELSE "Pass"
  ELSE "Pass"

\* lines 554-574: <<confidence, recommendation>>
Recommend(edge, vegas_line, has_valid_odds) ==
  IF DisagreementBelow(edge, vegas_line, 10)
  THEN <<"High", HighRecommendation(edge, has_valid_odds)>>
  ELSE IF DisagreementBelow(edge, vegas_line, 20)
  THEN <<"Medium", MediumRecommendation(edge, has_valid_odds)>>
  ELSE <<"Low", LowRecommendation(edge, has_valid_odds)>>

Truthy(o) == ~IsNone(o) /\ Val(o) # 0

\* the entries appended after the fixed ones (lines 584-607 and 628-651)
EnhancedFactors(sp) ==
  (IF sp.opponent_adj # 0 /\ Truthy(sp.opponent_avg)
   THEN <<[label |-> "Opponent defense", value |-> Val(sp.opponent_avg)]>> ELSE <<>>)
  \o
  (IF sp.teammate_boost # 0 /\ sp.missing_stars # {}
   THEN <<[label |-> "Missing stars", value |-> sp.teammate_boost]>> ELSE <<>>)
  \o
  (IF (sp.usage_info.recent_nan \/ Truthy(sp.usage_info.recent_fga))
      /\ Truthy(sp.usage_info.season_fga)
   THEN <<[label |-> "Usage", value |-> Val(sp.usage_info.season_fga)]>> ELSE <<>>)

\* the dict of lines 609-619
HybridResult(sp, vegas_data) ==
  LET stat_pred_value == Val(sp.prediction)
      vegas_line == Fine(vegas_data.line)
      final_prediction == Blend(vegas_data.line, stat_pred_value)
      edge == final_prediction - vegas_line
      rec == Recommend(edge, vegas_line, vegas_data.has_odds)
  IN  [prediction |-> Some(Round1Fine(final_prediction)),
       vegas_line |-> Some(vegas_data.line),
       stat_prediction |-> Round1(stat_pred_value),
       edge |-> Some(Round1Fine(edge)),
       confidence |-> rec[1],
       recommendation |-> rec[2],
       model_type |-> "Vegas+ Hybrid",
       factors |-> <<[label |-> "Vegas line", value |-> Round1(vegas_data.line)],
                     [label |-> "Statistical prediction", value |-> Round1(stat_pred_value)],
                     [label |-> "Recent form (L5)", value |-> Round1(sp.recent_5)],
                     [label |-> "Season average", value |-> Round1(sp.season_avg)],
                     [label |-> "Edge vs Vegas", value |-> Round1Fine(edge)]>>
                   \o EnhancedFactors(sp),
       games_used |-> sp.games_used]

\* variant: the tier of the estimator dropped
StatisticalResultLowTier(sp) ==
  LET stat_pred_value == Val(sp.prediction)
  IN  [prediction |-> Some(Round1(stat_pred_value)),
       vegas_line |-> NoneV,
       stat_prediction |-> Round1(stat_pred_value),
       edge |-> NoneV,
       confidence |-> "Low",
       recommendation |-> "No Line Available",
       model_type |-> "Enhanced Statistical",
       factors |-> <<[label |-> "Statistical prediction", value |-> Round1(stat_pred_value)],
                     [label |-> "Recent form (L5)", value |-> Round1(sp.recent_5)],
                     [label |-> "Season average", value |-> Round1(sp.season_avg)]>>
                   \o EnhancedFactors(sp),
       games_used |-> sp.games_used]

\* the dict of lines 653-663
StatisticalResult(sp) ==
  LET stat_pred_value == Val(sp.prediction)
  IN  [prediction |-> Some(Round1(stat_pred_value)),
       vegas_line |-> NoneV,
       stat_prediction |-> Round1(stat_pred_value),
       edge |-> NoneV,
       confidence |-> sp.confidence,
       recommendation |-> "No Line Available",
       model_type |-> "Enhanced Statistical",
       factors |-> <<[label |-> "Statistical prediction", value |-> Round1(stat_pred_value)],
                     [label |-> "Recent form (L5)", value |-> Round1(sp.recent_5)],
                     [label |-> "Season average", value |-> Round1(sp.season_avg)]>>
                   \o EnhancedFactors(sp),
       games_used |-> sp.games_used]

\* lines 533-663 for the two values read; raised names the exception that left
\* the call, value is the dict returned, the rest are locals
PredictResult(athlete_id, game_id, stat_type, season, vegas_data, stat_prediction) ==
  IF stat_prediction.exc # ""
  THEN [op |-> "predict_stat", athlete_id |-> athlete_id, game_id |-> game_id,
        stat_type |-> stat_type, season |-> season, vegas_data |-> vegas_data,
        raised |-> stat_prediction.exc, value |-> NoneV, stat_prediction |-> NoneV,
        final_prediction |-> NoneV, edge |-> NoneV]
  ELSE IF IsNone(stat_prediction.prediction)
  THEN [op |-> "predict_stat", athlete_id |-> athlete_id, game_id |-> game_id,
        stat_type |-> stat_type, season |-> season, vegas_data |-> vegas_data,
        raised |-> "",
        value |-> Some([prediction |-> NoneV, confidence |-> "Low",
                        error |-> stat_prediction.error]),
        stat_prediction |-> NoneV, final_prediction |-> NoneV, edge |-> NoneV]
  ELSE IF ~IsNone(vegas_data)
  THEN [op |-> "predict_stat", athlete_id |-> athlete_id, game_id |-> game_id,
        stat_type |-> stat_type, season |-> season, vegas_data |-> vegas_data,
        raised |-> "",
        value |-> Some(HybridResult(stat_prediction, Val(vegas_data))),
        stat_prediction |-> Some(stat_prediction),
        final_prediction |->
          Some(Blend(Val(vegas_data).line, Val(stat_prediction.prediction))),
        edge |-> Some(Blend(Val(vegas_data).line, Val(stat_prediction.prediction))
                      - Fine(Val(vegas_data).line))]
  ELSE [op |-> "predict_stat", athlete_id |-> athlete_id, game_id |-> game_id,
        stat_type |-> stat_type, season |-> season, vegas_data |-> vegas_data,
        raised |-> "",
        value |-> Some(StatisticalResult(stat_prediction)),
        stat_prediction |-> Some(stat_prediction),
        final_prediction |-> NoneV, edge |-> NoneV]

\* lines 507-531 for the season resolved
PredictInSeason(athlete_id, game_id, stat_type, season, vegas_data) ==
  PredictResult(athlete_id, game_id, stat_type, season, vegas_data,
                calculate_statistical_prediction(athlete_id, game_id, season, stat_type))

\* predict_stat with vegas_data the value get_prop_line returned
predict_stat(athlete_id, game_id, stat_type, vegas_data) ==
  PredictInSeason(athlete_id, game_id, stat_type, ResolveSeason(game_id), vegas_data)

----------------------------------------------------------------------------
(* PredictionEngine.get_game_predictions *)

\* stat_types when the caller passes None
DefaultStatTypes == <<"points", "rebounds", "assists">>

\* the rows of the players query: the athletes that played in the game
BatchPlayers(game_id) ==
  { [athlete_id |-> x[1].athlete_id, player_name |-> x[2].athlete_display_name,
     team_id |-> x[1].team_id, team_name |-> x[3].team_display_name] :
    x \in { y \in player_boxscores \X athletes \X teams :
              /\ y[1].athlete_id = y[2].athlete_id
              /\ y[1].team_id = y[3].team_id
              /\ y[1].game_id = game_id
              /\ y[1].athlete_didNotPlay = "0" } }

\* the orders in which a query without ORDER BY may return the rows S
RowOrders(S) ==
  { seq \in [1..Cardinality(S) -> S] :
      \A i, j \in 1..Cardinality(S) : i # j => seq[i] # seq[j] }

\* the iterations of the two loops, in order: <<player, stat_type>>
LoopPairs(players, stat_types) ==
  [k \in 1..(Len(players) * Len(stat_types)) |->
     <<players[((k - 1) \div Len(stat_types)) + 1],
       stat_types[((k - 1) % Len(stat_types)) + 1]>>]

\* the dict appended for a prediction without the key error
BatchEntry(player, game_id, stat_type, prediction) ==
  [athlete_id |-> player.athlete_id, player_name |-> player.player_name,
   team_id |-> player.team_id, team_name |-> player.team_name,
   game_id |-> game_id, stat_type |-> stat_type] @@ prediction

\* what the call of predict_stat of iteration pair may return or raise
IterationCalls(pair, game_id) ==
  { predict_stat(pair[1].athlete_id, game_id, pair[2], vegas_data) :
    vegas_data \in get_prop_line(pair[1].athlete_id, game_id, pair[2]) }

RECURSIVE Courses(_, _)
\* one call for each iteration from k on, possible[k] being the calls iteration k
\* may make
Courses(possible, k) ==
  IF k > Len(possible) THEN {<<>>}
  ELSE { <<call>> \o rest : call \in possible[k], rest \in Courses(possible, k + 1) }

\* the courses the loops may take: calls[k] is the call of iteration k
BatchCalls(pairs, game_id) ==
  Courses([k \in 1..Len(pairs) |-> IterationCalls(pairs[k], game_id)], 1)

\* the outcome of the loops for one course: the first exception of predict_stat
\* leaves the loops and the method; a dict with the key error is not appended
BatchOutcome(calls, pairs, game_id) ==
  IF \E k \in 1..Len(pairs) : calls[k].raised # ""
  THEN [raised |-> calls[CHOOSE k \in 1..Len(pairs) :
                           /\ calls[k].raised # ""
                           /\ \A j \in 1..(k - 1) : calls[j].raised = ""].raised,
        value |-> <<>>]
  ELSE LET kept == SelectSeq([k \in 1..Len(pairs) |-> k],
                             LAMBDA k : "error" \notin DOMAIN Val(calls[k].value))
       IN  [raised |-> "",
            value |-> [j \in 1..Len(kept) |->
                         BatchEntry(pairs[kept[j]][1], game_id, pairs[kept[j]][2],
                                    Val(calls[kept[j]].value))]]

\* the outcomes of the loops over pairs
LoopOutcomes(pairs, game_id) ==
  { BatchOutcome(calls, pairs, game_id) : calls \in BatchCalls(pairs, game_id) }

\* the stat_types the loops run over; stat_types is <<>> for None
StatTypesOrDefault(stat_types) ==
  IF IsNone(stat_types) THEN DefaultStatTypes ELSE Val(stat_types)

\* the outcomes get_game_predictions may have
get_game_predictions(game_id, stat_types) ==
  UNION { LoopOutcomes(LoopPairs(players, StatTypesOrDefault(stat_types)), game_id) :
          players \in RowOrders(BatchPlayers(game_id)) }

----------------------------------------------------------------------------
(* PredictionEngine.save_prediction *)

\* the characters of an athlete id
IdChars(athlete_id) ==
  CASE athlete_id = "p1" -> <<"p", "1">>
    [] athlete_id = "p2" -> <<"p", "2">>
    [] athlete_id = "p3" -> <<"p", "3">>

\* the decimal string of n, 0 <= n < 100
DecimalStr(n) ==
  LET digit == <<"0", "1", "2", "3", "4", "5", "6", "7", "8", "9">>
  IN  IF n < 10 THEN <<digit[n + 1]>> ELSE <<digit[(n \div 10) + 1], digit[(n % 10) + 1]>>

\* f"{game_id}_{athlete_id}_{stat_type}": one string, the stat type kept as a word
PredictionId(prediction) ==
  DecimalStr(prediction.game_id) \o <<"_">> \o IdChars(prediction.athlete_id)
    \o <<"_">> \o <<prediction.stat_type>>

\* dict.get(key, default)
DictGet(d, key, default) == IF key \in DOMAIN d THEN d[key] ELSE default

\* the row written; actual_value and error are columns the statement leaves NULL
PredictionRow(prediction, now) ==
  [prediction_id |-> PredictionId(prediction),
   athlete_id |-> prediction.athlete_id,
   game_id |-> prediction.game_id,
   season |-> DictGet(prediction, "season", "2024"),
   stat_type |-> prediction.stat_type,
   predicted_value |-> prediction.prediction,
   stat_prediction |-> DictGet(prediction, "stat_prediction", NoneV),
   vegas_line |-> DictGet(prediction, "vegas_line", NoneV),
   edge |-> DictGet(prediction, "edge", NoneV),
   confidence |-> prediction.confidence,
   recommendation |-> DictGet(prediction, "recommendation", NoneV),
   model_type |-> prediction.model_type,
   factors |-> DictGet(prediction, "factors", <<>>),
   games_used |-> DictGet(prediction, "games_used", NoneV),
   created_at |-> now,
   actual_value |-> NoneV,
   error |-> NoneV]

\* variant: a plain INSERT into a table without the primary key
save_prediction_insert(prediction, now) ==
  [table |-> predictions \cup {PredictionRow(prediction, now)},
   value |-> PredictionId(prediction)]

\* INSERT OR REPLACE INTO predictions: the table after the statement, and the id
save_prediction(prediction, now) ==
  [table |-> { r \in predictions : r.prediction_id # PredictionId(prediction) }
               \cup {PredictionRow(prediction, now)},
   value |-> PredictionId(prediction)]

----------------------------------------------------------------------------
(* The stores: contents of the tables the ingestion scripts can leave *)

\* no call is pending
Idle == [op |-> "idle"]

\* the response cache is not in use
CacheUnused == cache = {} /\ clock = 0

\* the engine is called by one caller, one call at a time
Sequential == threads = <<>> /\ frames = <<>> /\ CacheUnused

Athletes == {"p1", "p2", "p3"}

\* both athletes play for T1; T2 is the opponent in every game
Completed == 1..NGames
Upcoming == NGames + 1
GameIds == 1..(NGames + 1)

\* the seasons a caller may ask a game log for
Seasons == {"2024", "2025"}

\* the date of game g: games are numbered in date order
DateOf(g) == g

DigitStr(d) == <<"0", "1", "2", "3", "4", "5", "6", "7", "8", "9">>[d + 1]

\* the decimal string of n, 0 <= n < 100
Str(n) == IF n < 10 THEN <<DigitStr(n)>> ELSE <<DigitStr(n \div 10), DigitStr(n % 10)>>

\* "made-attempted"
FgaStr(made, attempted) == Str(made) \o <<"-">> \o Str(attempted)

\* the stat line of athlete a in game g under a profile of the season
StatLine(a, g, profile) ==
  IF a # "p1"
  THEN [points |-> 20, rebounds |-> 4, assists |-> 3, steals |-> 1, blocks |-> 1,
        fga |-> FgaStr(7, 15)]
  ELSE IF profile = "flat"
  THEN [points |-> 22, rebounds |-> 7, assists |-> 5, steals |-> 1, blocks |-> 0,
        fga |-> FgaStr(8, 16)]
  ELSE [points |-> 10 + 3 * g, rebounds |-> 4 + g, assists |-> 2 + (g % 3),
        steals |-> g % 2, blocks |-> (g + 1) % 2, fga |-> FgaStr(4 + g, 6 + 3 * g)]

\* a box-score row of a game the athlete played
PlayedRow(a, g, profile) ==
  LET sl == StatLine(a, g, profile)
  IN  [game_id |-> g, athlete_id |-> a, season |-> DefaultSeason, team_id |-> "T1",
       points |-> sl.points, rebounds |-> sl.rebounds, assists |-> sl.assists,
       steals |-> sl.steals, blocks |-> sl.blocks, athlete_didNotPlay |-> "0",
       minutes |-> "30", fieldGoalsMade_fieldGoalsAttempted |-> sl.fga]

\* a box-score row of a game the athlete sat out
DnpRow(a, g) ==
  [game_id |-> g, athlete_id |-> a, season |-> DefaultSeason, team_id |-> "T1",
   points |-> 0, rebounds |-> 0, assists |-> 0, steals |-> 0, blocks |-> 0,
   athlete_didNotPlay |-> "1", minutes |-> "NULL",
   fieldGoalsMade_fieldGoalsAttempted |-> NullStr]

\* p1 joined the team for game first and has played since, except game gap, for
\* which p1 has no row (kind "absent") or a did-not-play row (kind "dnp")
P1Rows(first, gap, kind, profile) ==
  { PlayedRow("p1", g, profile) : g \in (first..NGames) \ {gap} }
  \cup (IF gap \in first..NGames /\ kind = "dnp" THEN {DnpRow("p1", gap)} ELSE {})

\* the teammates: no rows; p2 plays every game; p2 plays the odd games and sits out
\* the even ones; or p2 and p3 both do
P2Rows(p2kind) ==
  CASE p2kind = "absent" -> {}
    [] p2kind = "plays" -> { PlayedRow("p2", g, "flat") : g \in Completed }
    [] p2kind = "odd" -> { IF g % 2 = 1 THEN PlayedRow("p2", g, "flat") ELSE DnpRow("p2", g) :
                           g \in Completed }
    [] p2kind = "pair" -> { IF g % 2 = 1 THEN PlayedRow(a, g, "flat") ELSE DnpRow(a, g) :
                            a \in {"p2", "p3"}, g \in Completed }

\* team box scores of T1 against T2, home and away alternating; T2 allows much
\* ("easy") or little ("tough")
TeamRows(tbkind) ==
  IF tbkind = "none" THEN {}
  ELSE LET t1 == IF tbkind = "easy" THEN [score |-> 120, reb |-> 48, ast |-> 30]
                 ELSE [score |-> 105, reb |-> 40, ast |-> 24]
           t2 == [score |-> 110, reb |-> 44, ast |-> 27]
       IN  { IF g % 2 = 1
             THEN [game_id |-> g, away_team_id |-> "T1", home_team_id |-> "T2",
                   away_score |-> t1.score, home_score |-> t2.score,
                   away_totalRebounds |-> t1.reb, home_totalRebounds |-> t2.reb,
                   away_assists |-> t1.ast, home_assists |-> t2.ast]
             ELSE [game_id |-> g, away_team_id |-> "T2", home_team_id |-> "T1",
                   away_score |-> t2.score, home_score |-> t1.score,
                   away_totalRebounds |-> t2.reb, home_totalRebounds |-> t1.reb,
                   away_assists |-> t2.ast, home_assists |-> t1.ast] : g \in Completed }

\* table teams
Teams == { [team_id |-> t, team_display_name |-> t] : t \in {"T1", "T2"} }

\* the quotes a sportsbook may post: line in tenths, American odds as strings
Odds(sign, n) == <<sign>> \o Str(n \div 10) \o <<DigitStr(n % 10)>>

QuoteUniverse ==
  { [line |-> l, over_odds |-> Odds("-", 110), under_odds |-> Odds("-", 110)] :
      l \in {0, 50, 100, 150, 200, 240} }
  \cup
  { [line |-> 205, over_odds |-> Odds("+", 110), under_odds |-> Odds("-", 140)],
    [line |-> 195, over_odds |-> Odds("-", 250), under_odds |-> Odds("+", 190)],
    [line |-> 45, over_odds |-> Odds("+", 100), under_odds |-> Odds("-", 125)],
    [line |-> 55, over_odds |-> <<"E", "v", "e", "n">>, under_odds |-> Odds("-", 120)],
    [line |-> 210, over_odds |-> NullStr, under_odds |-> Odds("-", 110)] }

\* prop_id holds the line, so the quotes of one (game, athlete, prop type) differ in line
QuoteSets ==
  { Q \in SUBSET QuoteUniverse :
      /\ Cardinality(Q) <= MaxQuotes
      /\ \A q1, q2 \in Q : q1.line = q2.line => q1 = q2 }

\* the games quotes are posted for: the latest completed one and the upcoming one
QuoteGames == {NGames, Upcoming}

\* the quotes Q posted for p1, for every prop type
PropTable(Q) ==
  { [athlete_id |-> "p1", game_id |-> g, prop_type |-> prop_type_mapping[st],
     line |-> q.line, over_odds |-> q.over_odds, under_odds |-> q.under_odds] :
    g \in QuoteGames, st \in StatTypes, q \in Q }

\* the store of a season so far
Store(first, gap, kind, profile, p2kind, tbkind, Q) ==
  /\ basic_events = { [event_id |-> g, season |-> DefaultSeason, event_season_type |-> 2,
                       date |-> DateOf(g)] : g \in Completed }
  /\ player_boxscores = P1Rows(first, gap, kind, profile) \cup P2Rows(p2kind)
  /\ team_boxscores = TeamRows(tbkind)
  /\ player_props = PropTable(Q)
  /\ athletes = { [athlete_id |-> a, athlete_display_name |-> a] : a \in Athletes }
  /\ teams = Teams
  /\ predictions = {}

Init ==
  \E first \in 1..(NGames + 1), gap \in 0..NGames, kind \in {"absent", "dnp"},
     profile \in {"flat", "rising"}, p2kind \in {"absent", "plays", "odd", "pair"},
     tbkind \in {"none", "easy", "tough"}, Q \in QuoteSets :
    \* the parameters that change nothing are fixed
    /\ gap = 0 \/ gap \in first..NGames
    /\ gap = 0 => kind = "absent"
    \* either the history varies, with at most the standard quote posted,
    \* or the quotes vary, for a player with a full history
    /\ \/ /\ Q \subseteq {[line |-> 200, over_odds |-> Odds("-", 110),
                           under_odds |-> Odds("-", 110)]}
          /\ <<p2kind, tbkind>> \in {<<"absent", "none">>, <<"plays", "easy">>,
                                     <<"odd", "tough">>, <<"odd", "none">>,
                                     <<"pair", "easy">>}
       \/ /\ first = 1 /\ gap = 0
          /\ <<p2kind, tbkind>> \in {<<"absent", "none">>, <<"odd", "easy">>}
    /\ Store(first, gap, kind, profile, p2kind, tbkind, Q)
    /\ ret = Idle
    /\ Sequential

----------------------------------------------------------------------------
(* The calls.  The engine is called synchronously: a call is made when no   *)
(* returned value is pending, and the caller then takes the value.          *)

\* variant: predict_stat saves what it returns
PredictStatSaving(athlete_id, game_id, stat_type) ==
  /\ ret = Idle
  /\ \E vegas_data \in get_prop_line(athlete_id, game_id, stat_type) :
       /\ ret' = predict_stat(athlete_id, game_id, stat_type, vegas_data)
       /\ predictions' =
            IF /\ ret'.raised = ""
               /\ "error" \notin DOMAIN Val(ret'.value)
               /\ Cardinality(predictions) < MaxSaved
            THEN save_prediction([athlete_id |-> athlete_id, game_id |-> game_id,
                                  stat_type |-> stat_type] @@ Val(ret'.value), 2).table
            ELSE predictions
  /\ UNCHANGED <<feeds, concurrent, cached>>

\* predict_stat(athlete_id, game_id, stat_type)
PredictStat(athlete_id, game_id, stat_type) ==
  /\ ret = Idle
  /\ \E vegas_data \in get_prop_line(athlete_id, game_id, stat_type) :
       ret' = predict_stat(athlete_id, game_id, stat_type, vegas_data)
  /\ UNCHANGED <<tables, concurrent, cached>>

\* get_player_game_log(athlete_id, season, before_game_id): the games of the frame
GetPlayerGameLog(athlete_id, season, before_game_id) ==
  /\ ret = Idle
  /\ ret' = [op |-> "get_player_game_log", athlete_id |-> athlete_id, season |-> season,
             before_game_id |-> before_game_id,
             value |-> LET df == get_player_game_log(athlete_id, season, before_game_id)
                       IN  [i \in 1..Len(df) |-> [game_id |-> df[i].game_id,
                                                  date |-> df[i].date]]]
  /\ UNCHANGED <<tables, concurrent, cached>>

\* get_prop_line(athlete_id, game_id, stat_type)
GetPropLine(athlete_id, game_id, stat_type) ==
  /\ ret = Idle
  /\ \E value \in get_prop_line(athlete_id, game_id, stat_type) :
       ret' = [op |-> "get_prop_line", athlete_id |-> athlete_id, game_id |-> game_id,
               stat_type |-> stat_type, value |-> value]
  /\ UNCHANGED <<tables, concurrent, cached>>

\* get_game_predictions(game_id, stat_types)
GetGamePredictions(game_id, stat_types) ==
  /\ ret = Idle
  /\ \E out \in get_game_predictions(game_id, stat_types) :
       ret' = [op |-> "get_game_predictions", game_id |-> game_id,
               stat_types |-> stat_types, raised |-> out.raised, value |-> out.value]
  /\ UNCHANGED <<tables, concurrent, cached>>

\* the readings of the clock
Times == {1, 2}

\* save_prediction(prediction) at the clock reading now; replaced tells that the
\* statement found a row with the id
SavePrediction(prediction, now) ==
  /\ \A r \in predictions : r.created_at <= now
  /\ \/ Cardinality(predictions) < MaxSaved
     \/ \E r \in predictions : r.prediction_id = PredictionId(prediction)
  /\ predictions' = save_prediction(prediction, now).table
  /\ ret' = [op |-> "save_prediction", prediction |-> prediction, now |-> now,
             replaced |-> \E r \in predictions : r.prediction_id = PredictionId(prediction),
             value |-> save_prediction(prediction, now).value]
  /\ UNCHANGED <<feeds, concurrent, cached>>

\* the caller saves the i-th dict of the batch it holds
SaveFromBatch(i, now) ==
  /\ ret.op = "get_game_predictions"
  /\ i \in 1..Len(ret.value)
  /\ SavePrediction(ret.value[i], now)

\* the caller takes the returned value (or the exception)
Return ==
  /\ ret # Idle
  /\ ret' = Idle
  /\ UNCHANGED <<tables, concurrent, cached>>

Next ==
  \/ \E a \in Athletes, g \in GameIds, st \in StatTypes : PredictStat(a, g, st)
  \/ \E a \in Athletes, se \in Seasons, g \in GameIds \cup {NoGame} : GetPlayerGameLog(a, se, g)
  \/ \E a \in Athletes, g \in GameIds, st \in StatTypes : GetPropLine(a, g, st)
  \/ Return

Spec == Init /\ [][Next]_vars

----------------------------------------------------------------------------
(* Batches and saved predictions *)

\* a full season of p1, with teammates and quotes or without
InitBatch ==
  \E first \in {1, 4}, p2kind \in {"absent", "plays", "pair"}, Q \in QuoteSets :
    /\ Q \subseteq {[line |-> 200, over_odds |-> Odds("-", 110),
                      under_odds |-> Odds("-", 110)]}
    /\ Store(first, 0, "absent", "rising", p2kind, "easy", Q)
    /\ ret = Idle
    /\ Sequential

\* the games a batch is asked for
BatchGames == {3, NGames, Upcoming}

\* the lists of stat types a batch is asked for: <<>> is None
BatchStatTypes == {NoneV, Some(<<"points">>), Some(<<"points", "steals">>)}

NextBatch ==
  \/ \E a \in Athletes, g \in BatchGames, st \in {"points", "steals"} : PredictStat(a, g, st)
  \/ \E g \in BatchGames, sts \in BatchStatTypes : GetGamePredictions(g, sts)
  \/ \E i \in 1..(Cardinality(Athletes) * Len(DefaultStatTypes)), now \in Times :
       SaveFromBatch(i, now)
  \/ Return

SpecBatch == InitBatch /\ [][NextBatch]_vars

----------------------------------------------------------------------------
(* Saves of dicts a caller holds *)

\* the dicts a caller saves: predictions without a line and with one, two values
\* for each (game, athlete, stat type)
SavedDicts ==
  { [game_id |-> g, athlete_id |-> a, stat_type |-> st, prediction |-> Some(v),
     confidence |-> "Low", model_type |-> "Enhanced Statistical"] :
    g \in {NGames, Upcoming}, a \in {"p1", "p2"}, st \in {"points", "steals"},
    v \in {180, 225} }
  \cup
  { [game_id |-> g, athlete_id |-> "p1", stat_type |-> "points", prediction |-> Some(204),
     vegas_line |-> Some(200), stat_prediction |-> 225, edge |-> Some(4),
     confidence |-> "High", recommendation |-> "Pass", model_type |-> "Vegas+ Hybrid",
     games_used |-> 4] :
    g \in {NGames, Upcoming} }

InitSave ==
  /\ Store(1, 0, "absent", "rising", "absent", "easy", {})
  /\ ret = Idle
  /\ Sequential

\* save_prediction called with a dict, when no call is pending
SaveDict(prediction, now) == ret = Idle /\ SavePrediction(prediction, now)

NextSave ==
  \/ \E prediction \in SavedDicts, now \in Times : SaveDict(prediction, now)
  \/ Return

SpecSave == InitSave /\ [][NextSave]_vars

----------------------------------------------------------------------------
(* One season of one player, game by game.  The store holds games 1..n of    *)
(* T1 against T2; p1 has a row for every one of them and the estimator is    *)
(* asked about the latest, so that the game log is games 1..n-1.             *)

\* at most this many games in the season
MaxSeason == 11

\* the line of p1 in a game: a game with 20 points on 8 of 20 shooting ("H"), or a
\* game without a shot ("Z")
SeasonLine(kind) ==
  IF kind = "H"
  THEN [points |-> 20, rebounds |-> 7, assists |-> 5, steals |-> 1, blocks |-> 0,
        fga |-> FgaStr(8, 20)]
  ELSE [points |-> 0, rebounds |-> 7, assists |-> 5, steals |-> 1, blocks |-> 0,
        fga |-> FgaStr(0, 0)]

\* the games whose made-attempted field is NULL
Unparsed(n, u) ==
  CASE u = "none" -> {}
    [] u = "early" -> {1}
    [] u = "recent" -> (n - 5)..(n - 1)
    [] u = "all" -> 1..n

\* the rows of p1: seq[g] is the line of game g
SeasonRows(n, seq, u) ==
  { LET sl == SeasonLine(seq[g])
    IN  [game_id |-> g, athlete_id |-> "p1", season |-> DefaultSeason, team_id |-> "T1",
         points |-> sl.points, rebounds |-> sl.rebounds, assists |-> sl.assists,
         steals |-> sl.steals, blocks |-> sl.blocks, athlete_didNotPlay |-> "0",
         minutes |-> "30",
         fieldGoalsMade_fieldGoalsAttempted |->
           IF g \in Unparsed(n, u) THEN NullStr ELSE sl.fga] : g \in 1..n }

\* the team box scores: what T1 scores against T2 grows from game to game
SeasonTeamRows(n) ==
  { LET t1 == [score |-> 100 + 3 * g, reb |-> 38 + g, ast |-> 20 + g]
        t2 == [score |-> 110, reb |-> 44, ast |-> 27]
    IN  IF g % 2 = 1
        THEN [game_id |-> g, away_team_id |-> "T1", home_team_id |-> "T2",
              away_score |-> t1.score, home_score |-> t2.score,
              away_totalRebounds |-> t1.reb, home_totalRebounds |-> t2.reb,
              away_assists |-> t1.ast, home_assists |-> t2.ast]
        ELSE [game_id |-> g, away_team_id |-> "T2", home_team_id |-> "T1",
              away_score |-> t2.score, home_score |-> t1.score,
              away_totalRebounds |-> t2.reb, home_totalRebounds |-> t1.reb,
              away_assists |-> t2.ast, home_assists |-> t1.ast] : g \in 1..n }

\* the rows of the teammate p2: absent from the store, or a scorer of 20 points in
\* every game but the latest ("out"), or in the game before the latest only ("once")
SeasonMateRows(n, mate) ==
  IF mate = "none" THEN {}
  ELSE { [game_id |-> g, athlete_id |-> "p2", season |-> DefaultSeason, team_id |-> "T1",
          points |-> 20, rebounds |-> 4, assists |-> 3, steals |-> 1, blocks |-> 1,
          athlete_didNotPlay |-> "0", minutes |-> "30",
          fieldGoalsMade_fieldGoalsAttempted |-> FgaStr(7, 15)] :
         g \in (IF mate = "once" THEN n - 1 ELSE 1)..(n - 1) }

InitSeason ==
  \E n \in 3..MaxSeason, u \in {"none", "early", "recent", "all"},
     mate \in {"none", "out", "once"} :
    \E seq \in [1..n -> {"H", "Z"}] :
      \* the lines vary with every field parsed, or fields are NULL in a season of
      \* "H" games
      /\ u = "none" \/ (n >= 6 /\ \A g \in 1..n : seq[g] = "H")
      \* the teammate is out in seasons of 7 games or fewer
      /\ mate = "none" \/ (u = "none" /\ n <= 7)
      /\ basic_events = { [event_id |-> g, season |-> DefaultSeason,
                           event_season_type |-> 2, date |-> DateOf(g)] : g \in 1..n }
      /\ player_boxscores = SeasonRows(n, seq, u) \cup SeasonMateRows(n, mate)
      /\ team_boxscores = SeasonTeamRows(n)
      /\ player_props = {}
      /\ athletes = { [athlete_id |-> a, athlete_display_name |-> a] : a \in Athletes }
      /\ teams = Teams
      /\ predictions = {}
      /\ ret = Idle
      /\ Sequential

\* the latest game of the store
LatestGame ==
  (CHOOSE be \in basic_events : \A o \in basic_events : o.date <= be.date).event_id

\* calculate_statistical_prediction(athlete_id, game_id, season, stat_type)
CalculateStatisticalPrediction(athlete_id, game_id, season, stat_type) ==
  /\ ret = Idle
  /\ ret' = [op |-> "calculate_statistical_prediction", athlete_id |-> athlete_id,
             game_id |-> game_id, season |-> season, stat_type |-> stat_type,
             value |-> calculate_statistical_prediction(athlete_id, game_id, season,
                                                        stat_type)]
  /\ UNCHANGED <<tables, concurrent, cached>>

\* get_opponent_recent_defense(opponent_team_id, game_id, season, stat_type)
GetOpponentRecentDefense(opponent_team_id, game_id, season, stat_type) ==
  /\ ret = Idle
  /\ ret' = [op |-> "get_opponent_recent_defense", opponent_team_id |-> opponent_team_id,
             game_id |-> game_id, season |-> season, stat_type |-> stat_type,
             value |-> get_opponent_recent_defense(opponent_team_id, game_id, season,
                                                   stat_type, NRecent)]
  /\ UNCHANGED <<tables, concurrent, cached>>

NextSeason ==
  \/ \E st \in {"points", "rebounds"} :
       CalculateStatisticalPrediction("p1", LatestGame, DefaultSeason, st)
  \/ \E st \in StatTypes : GetOpponentRecentDefense("T2", LatestGame, DefaultSeason, st)
  \/ Return

SpecSeason == InitSeason /\ [][NextSeason]_vars

----------------------------------------------------------------------------
(* Calls of predict_stat running at once.  A thread runs predict_stat one     *)
(* query at a time; every query opens a connection of its own                 *)
(* (get_connection), and what a call has read so far is held in the local     *)
(* variables of its frame.                                                     *)

Threads == {1, 2}

\* the arguments the threads call predict_stat with
CallArgs ==
  [athlete_id : {"p1", "p2"}, game_id : {NGames, Upcoming}, stat_type : {"points", "steals"}]

\* variant: the calls keep what they read in one frame, as attributes of the engine
FrameShared(t) == 1

\* the frame of the call of thread t: the local variables of its activation
FrameOf(t) == t

\* the locals of predict_stat and of calculate_statistical_prediction before the
\* first query; season is a string, empty until it is assigned; queries lists the
\* queries the call has made so far, in order
NewFrame ==
  [queries |-> <<>>, season |-> "", vegas_data |-> NoneV, game_log |-> <<>>, opponent_result |-> NoneV,
   opponent_info |-> NoOpponentInfo, star_ids |-> {}, teammate_info |-> NoTeammateInfo]

NotCalling == [pc |-> "idle"]

\* the stores the threads run on
InitConcurrent ==
  \E first \in {1, 4}, p2kind \in {"absent", "plays", "pair"}, Q \in QuoteSets :
    /\ Q \subseteq {[line |-> 200, over_odds |-> Odds("-", 110),
                      under_odds |-> Odds("-", 110)]}
    /\ Store(first, 0, "absent", "rising", p2kind, "easy", Q)
    /\ ret = Idle
    /\ threads = [t \in Threads |-> NotCalling]
    /\ frames = [t \in Threads |-> NewFrame]
    /\ CacheUnused

\* thread t is at position pc of a call
At(t, pc) == threads[t].pc = pc

\* thread t has made the query of its position and moves to position pc, with its
\* frame written to
Goto(t, pc, written) ==
  /\ threads' = [threads EXCEPT ![t].pc = pc]
  /\ frames' = [frames EXCEPT ![FrameOf(t)] =
       [queries |-> Append(frames[FrameOf(t)].queries, threads[t].pc)]
         @@ written @@ frames[FrameOf(t)]]

\* the call of thread t ends with the estimate stat_prediction, its frame written to
Finish(t, written, stat_prediction) ==
  /\ threads' = [threads EXCEPT ![t] =
       [pc |-> "done", athlete_id |-> threads[t].athlete_id, game_id |-> threads[t].game_id,
        stat_type |-> threads[t].stat_type, overlapped |-> threads[t].overlapped,
        result |-> PredictResult(threads[t].athlete_id, threads[t].game_id,
                                 threads[t].stat_type, frames[FrameOf(t)].season,
                                 frames[FrameOf(t)].vegas_data, stat_prediction)]]
  /\ frames' = [frames EXCEPT ![FrameOf(t)] =
       [queries |-> Append(frames[FrameOf(t)].queries, threads[t].pc)]
         @@ written @@ frames[FrameOf(t)]]

\* lines 406-494 for the locals of a frame
EstimateOfFrame(stat_type, frame) ==
  EstimateWithUsage(frame.game_log, stat_type, get_usage_change(frame.game_log),
                    frame.opponent_info, frame.teammate_info)

\* thread t is inside a call
Running(t) == threads[t].pc \notin {"idle", "done"}

\* a thread calls predict_stat(athlete_id, game_id, stat_type), for a tuple no
\* other thread is working on; overlapped records that another call was running
\* during the call
Begin(t, args) ==
  /\ ~Running(t)
  /\ \A u \in Threads \ {t} :
       IF ~Running(u) THEN TRUE
       ELSE <<threads[u].athlete_id, threads[u].game_id, threads[u].stat_type>>
              # <<args.athlete_id, args.game_id, args.stat_type>>
  /\ threads' = [u \in Threads |->
       IF u = t
       THEN [pc |-> "game_query", athlete_id |-> args.athlete_id,
             game_id |-> args.game_id, stat_type |-> args.stat_type, result |-> NoneV,
             overlapped |-> \E v \in Threads \ {t} : Running(v)]
       ELSE IF Running(u) THEN [threads[u] EXCEPT !.overlapped = TRUE]
       ELSE threads[u]]
  /\ frames' = [frames EXCEPT ![FrameOf(t)] = NewFrame]
  /\ UNCHANGED <<tables, ret, cached>>

\* lines 507-518: the season of the game
GameQuery(t) ==
  /\ At(t, "game_query")
  /\ Goto(t, "get_prop_line", [season |-> ResolveSeason(threads[t].game_id)])
  /\ UNCHANGED <<tables, ret, cached>>

\* line 523
ReadPropLine(t) ==
  /\ At(t, "get_prop_line")
  /\ \E vegas_data \in get_prop_line(threads[t].athlete_id, threads[t].game_id,
                                     threads[t].stat_type) :
       Goto(t, "get_player_game_log", [vegas_data |-> vegas_data])
  /\ UNCHANGED <<tables, ret, cached>>

\* lines 399-404: the game log, and the error for fewer than 3 games
ReadGameLog(t) ==
  /\ At(t, "get_player_game_log")
  /\ LET game_log == get_player_game_log(threads[t].athlete_id,
                                         frames[FrameOf(t)].season,
                                         threads[t].game_id)
     IN  IF Len(game_log) < MinGames
         THEN Finish(t, [game_log |-> game_log], InsufficientData)
         ELSE Goto(t, "opponent_query", [game_log |-> game_log])
  /\ UNCHANGED <<tables, ret, cached>>

\* lines 424-440: the row of opponent_query
OpponentQuery(t) ==
  /\ At(t, "opponent_query")
  /\ LET opponent_result == OpponentResult(threads[t].athlete_id, threads[t].game_id)
     IN  IF IsNone(opponent_result)
         THEN Finish(t, [opponent_result |-> opponent_result],
                     EstimateOfFrame(threads[t].stat_type, frames[FrameOf(t)]))
         ELSE Goto(t, "get_opponent_recent_defense", [opponent_result |-> opponent_result])
  /\ UNCHANGED <<tables, ret, cached>>

\* lines 447-451: an exception of get_opponent_recent_defense leaves the call
ReadDefense(t) ==
  /\ At(t, "get_opponent_recent_defense")
  /\ LET opponent_info ==
           OpponentInfo(get_opponent_recent_defense(
                          OpponentTeam(Val(frames[FrameOf(t)].opponent_result)),
                          threads[t].game_id, frames[FrameOf(t)].season,
                          threads[t].stat_type, NRecent))
     IN  IF opponent_info.exc # ""
         THEN Finish(t, [opponent_info |-> opponent_info], [exc |-> opponent_info.exc])
         ELSE Goto(t, "stars", [opponent_info |-> opponent_info])
  /\ UNCHANGED <<tables, ret, cached>>

\* lines 294-331: the stars of the team; without one the context is neutral
ReadStars(t) ==
  /\ At(t, "stars")
  /\ LET star_ids == Stars(threads[t].athlete_id, threads[t].game_id,
                           Val(frames[FrameOf(t)].opponent_result).team_id,
                           frames[FrameOf(t)].season)
     IN  IF star_ids = {}
         THEN Finish(t, [star_ids |-> star_ids, teammate_info |-> TeammateContextOf({}, {})],
                     EstimateOfFrame(threads[t].stat_type,
                                     [teammate_info |-> TeammateContextOf({}, {})]
                                       @@ frames[FrameOf(t)]))
         ELSE Goto(t, "playing_stars", [star_ids |-> star_ids])
  /\ UNCHANGED <<tables, ret, cached>>

\* lines 333-366 and 460-494: the stars playing, and the estimate
ReadPlayingStars(t) ==
  /\ At(t, "playing_stars")
  /\ LET teammate_info ==
           TeammateContextOfStars(frames[FrameOf(t)].star_ids, threads[t].game_id,
                                  Val(frames[FrameOf(t)].opponent_result).team_id)
     IN  Finish(t, [teammate_info |-> teammate_info],
                EstimateOfFrame(threads[t].stat_type,
                                [teammate_info |-> teammate_info] @@ frames[FrameOf(t)]))
  /\ UNCHANGED <<tables, ret, cached>>

NextConcurrent ==
  \/ \E t \in Threads, args \in CallArgs : Begin(t, args)
  \/ \E t \in Threads : GameQuery(t)
  \/ \E t \in Threads : ReadPropLine(t)
  \/ \E t \in Threads : ReadGameLog(t)
  \/ \E t \in Threads : OpponentQuery(t)
  \/ \E t \in Threads : ReadDefense(t)
  \/ \E t \in Threads : ReadStars(t)
  \/ \E t \in Threads : ReadPlayingStars(t)

SpecConcurrent == InitConcurrent /\ [][NextConcurrent]_vars

----------------------------------------------------------------------------
(* SimpleCache (api/cache.py).  The threads call get, set and clear of the    *)
(* one cache object; a thread may be suspended between any two operations on  *)
(* the dict, each of which is atomic.                                          *)

\* the calls are made on one key
CacheKeys == {"k"}

CacheValues == {"a", "b"}

\* ttl_seconds
Ttls == {1, 2}

\* the clock is read up to this value
MaxClock == 3

\* the calls a thread makes
CacheCalls ==
  { [op |-> "get", key |-> k] : k \in CacheKeys }
  \cup { [op |-> "set", key |-> k, value |-> v, ttl_seconds |-> ttl] :
         k \in CacheKeys, v \in CacheValues, ttl \in Ttls }
  \cup { [op |-> "clear"] }

\* key in self._cache
Has(key) == \E e \in cache : e.key = key

\* self._cache[key], for a key of the dict
Entry(key) == CHOOSE e \in cache : e.key = key

\* the dict without key
Without(key) == { e \in cache : e.key # key }

\* the locals of a call before its first statement
NoLocals == [value |-> NoneV, expiry |-> 0, now |-> 0]

InitCache ==
  /\ Store(1, 0, "absent", "rising", "absent", "easy", {})
  /\ ret = Idle
  /\ threads = [t \in Threads |-> NotCalling]
  /\ frames = [t \in Threads |-> NoLocals]
  /\ cache = {}
  /\ clock = 0

\* the first statement of a call
FirstOf(call) ==
  CASE call.op = "get" -> "contains"
    [] call.op = "set" -> "expiry"
    [] call.op = "clear" -> "clear"

\* thread t calls get, set or clear
CacheCall(t, call) ==
  /\ ~Running(t)
  /\ threads' = [threads EXCEPT ![t] =
       [pc |-> FirstOf(call), call |-> call, result |-> NoneV, raised |-> ""]]
  /\ frames' = [frames EXCEPT ![t] = NoLocals]
  /\ UNCHANGED <<tables, ret, cached>>

\* the call of thread t returns result
Returns(t, result) ==
  threads' = [threads EXCEPT ![t].pc = "done", ![t].result = result]

\* the call of thread t is left by an exception
Raises(t, exc) ==
  threads' = [threads EXCEPT ![t].pc = "done", ![t].raised = exc]

\* get, line 17: if key in self._cache
GetContains(t) ==
  /\ At(t, "contains")
  /\ IF Has(threads[t].call.key)
     THEN threads' = [threads EXCEPT ![t].pc = "read"]
     ELSE Returns(t, NoneV)
  /\ UNCHANGED <<tables, ret, frames, cached>>

\* get, line 18: value, expiry = self._cache[key]
GetRead(t) ==
  /\ At(t, "read")
  /\ IF Has(threads[t].call.key)
     THEN /\ threads' = [threads EXCEPT ![t].pc = "compare"]
          /\ frames' = [frames EXCEPT ![t].value = Some(Entry(threads[t].call.key).value),
                                      ![t].expiry = Entry(threads[t].call.key).expiry]
     ELSE /\ Raises(t, "KeyError")
          /\ UNCHANGED frames
  /\ UNCHANGED <<tables, ret, cached>>

\* get, lines 19-20: if datetime.now() < expiry: return value
GetCompare(t) ==
  /\ At(t, "compare")
  /\ frames' = [frames EXCEPT ![t].now = clock]
  /\ IF clock < frames[t].expiry
     THEN Returns(t, frames[t].value)
     ELSE threads' = [threads EXCEPT ![t].pc = "del"]
  /\ UNCHANGED <<tables, ret, cached>>

\* get, lines 22-24: del self._cache[key]; return None
GetDel(t) ==
  /\ At(t, "del")
  /\ IF Has(threads[t].call.key)
     THEN /\ cache' = Without(threads[t].call.key)
          /\ Returns(t, NoneV)
     ELSE /\ Raises(t, "KeyError")
          /\ UNCHANGED cache
  /\ UNCHANGED <<tables, ret, frames, clock>>

\* set, line 28: expiry = datetime.now() + timedelta(seconds=ttl_seconds)
SetExpiry(t) ==
  /\ At(t, "expiry")
  /\ threads' = [threads EXCEPT ![t].pc = "store"]
  /\ frames' = [frames EXCEPT ![t].now = clock,
                              ![t].expiry = clock + threads[t].call.ttl_seconds]
  /\ UNCHANGED <<tables, ret, cached>>

\* set, line 29: self._cache[key] = (value, expiry)
SetStore(t) ==
  /\ At(t, "store")
  /\ cache' = Without(threads[t].call.key)
                \cup {[key |-> threads[t].call.key, value |-> threads[t].call.value,
                       expiry |-> frames[t].expiry]}
  /\ Returns(t, NoneV)
  /\ UNCHANGED <<tables, ret, frames, clock>>

\* clear, line 33: self._cache.clear()
Clear(t) ==
  /\ At(t, "clear")
  /\ cache' = {}
  /\ Returns(t, NoneV)
  /\ UNCHANGED <<tables, ret, frames, clock>>

\* time passes
Tick ==
  /\ clock < MaxClock
  /\ clock' = clock + 1
  /\ UNCHANGED <<tables, ret, concurrent, cache>>

NextCache ==
  \/ \E t \in Threads, call \in CacheCalls : CacheCall(t, call)
  \/ \E t \in Threads : GetContains(t)
  \/ \E t \in Threads : GetRead(t)
  \/ \E t \in Threads : GetCompare(t)
  \/ \E t \in Threads : GetDel(t)
  \/ \E t \in Threads : SetExpiry(t)
  \/ \E t \in Threads : SetStore(t)
  \/ \E t \in Threads : Clear(t)
  \/ Tick

SpecCache == InitCache /\ [][NextCache]_vars

----------------------------------------------------------------------------
(* What the claims speak about *)

\* a call of predict_stat has returned a prediction
Predicted == ret.op = "predict_stat" /\ ret.raised = "" /\ ~IsNone(ret.stat_prediction)

\* a call of predict_stat has returned the insufficient-history error
ReturnedError == ret.op = "predict_stat" /\ ret.raised = "" /\ IsNone(ret.stat_prediction)

\* ... a prediction, with a market line selected
WithLine == Predicted /\ ~IsNone(ret.vegas_data)

\* the locals of that call: line, statistical estimate (thousandths), blend and edge
\* (hundred-thousandths), and the dict returned
TheLine == Val(ret.vegas_data).line
TheEstimate == Val(Val(ret.stat_prediction).prediction)
TheFinal == Val(ret.final_prediction)
TheEdge == Val(ret.edge)
TheResult == Val(ret.value)
IsMainLine == Val(ret.vegas_data).has_odds

\* the qualifying games of the player that precede the target game in date order,
\* in the season predict_stat resolves
GamesBefore(athlete_id, game_id) ==
  { r \in GameLogRows(athlete_id, ResolveSeason(game_id)) : r.date < DateOf(game_id) }

\* the number an odds string writes: <<>> when it writes none
OddsValue(odds) == PyInt(Replace(odds, "+"))

----------------------------------------------------------------------------
(* C1 - C10 *)

\* C1: get_player_game_log(athlete_id, season, before_game_id) returns only entries
\* that strictly precede the target game in date order, also when the player has no
\* qualifying row for the target game.
C1_NoFutureEntries ==
  (ret.op = "get_player_game_log" /\ ret.before_game_id # NoGame)
    => \A i \in 1..Len(ret.value) : ret.value[i].date < DateOf(ret.before_game_id)

\* C2: of the quotes with both odds present, get_prop_line never selects a quote when
\* another candidate's over-odds are numerically closer to -110.
C2_ClosestToMinus110 ==
  (ret.op = "get_prop_line" /\ ~IsNone(ret.value) /\ ~IsNone(OddsValue(Val(ret.value).over_odds)))
    => \A q \in PropRows(ret.athlete_id, ret.game_id, prop_type_mapping[ret.stat_type]) :
         ~IsNone(OddsValue(q.over_odds))
           => Abs(Val(OddsValue(Val(ret.value).over_odds)) + 110)
                <= Abs(Val(OddsValue(q.over_odds)) + 110)

\* C3: with a market line of 0 the returned confidence is Low.
C3_ZeroLineIsLow ==
  (WithLine /\ TheLine = 0) => TheResult.confidence = "Low"

\* C4: predict_stat never raises an exception, for each of the five stat types.
C4_NeverRaises ==
  ret.op = "predict_stat" => ret.raised = ""

\* C5: predict_stat returns the insufficient-history error exactly when the player has
\* fewer than 3 qualifying games before the target game, and a result otherwise.
C5_ErrorIffFewerThanThree ==
  ret.op = "predict_stat"
    => /\ Cardinality(GamesBefore(ret.athlete_id, ret.game_id)) < 3 => ReturnedError
       /\ Cardinality(GamesBefore(ret.athlete_id, ret.game_id)) >= 3 => Predicted

\* C6: with a market line, final = 0.65*line + 0.35*estimate and edge = final - line
\* = 0.35*(estimate - line); line 20.0 and estimate 22.0 give final 20.7 and edge 0.7,
\* which are also the values returned.
C6_BlendArithmetic ==
  WithLine
    => /\ TheFinal = 65 * TheLine + 35 * TheEstimate
       /\ TheEdge = TheFinal - 100 * TheLine
       /\ TheEdge = 35 * (TheEstimate - TheLine)
       /\ (TheLine = 20000 /\ TheEstimate = 22000)
            => /\ TheFinal = 2070000 /\ TheEdge = 70000
               /\ TheResult.prediction = Some(20700) /\ TheResult.edge = Some(700)

C6_Witness ==
  WithLine /\ TheLine = 20000 /\ TheEstimate = 22000

\* C7: with a market line and |edge|/line < 0.10, confidence is High and the
\* recommendation is Pass (Alt Line) off the main line, else Pass if |edge| < 0.5,
\* Over if edge >= 0.5, Under if edge <= -0.5.
C7_HighTier ==
  (WithLine /\ TheLine > 0 /\ Abs(TheEdge) * 10 < 100 * TheLine)
    => /\ TheResult.confidence = "High"
       /\ TheResult.recommendation =
            IF ~IsMainLine THEN "Pass (Alt Line)"
            ELSE IF TheEdge >= 50000 THEN "Over"
            ELSE IF TheEdge <= 0 - 50000 THEN "Under"
            ELSE "Pass"

C7_Witness ==
  /\ WithLine /\ TheLine > 0 /\ Abs(TheEdge) * 10 < 100 * TheLine
  /\ ~IsMainLine /\ Abs(TheEdge) >= 50000
  /\ TheResult.recommendation = "Pass (Alt Line)"

\* C8: with a market line and 0.10 <= |edge|/line < 0.20, confidence is Medium and the
\* recommendation is Pass (Alt Line) off the main line, else Over if edge >= 1.0,
\* Under if edge <= -1.0, Pass otherwise.
C8_MediumTier ==
  (WithLine /\ TheLine > 0 /\ Abs(TheEdge) * 10 >= 100 * TheLine
            /\ Abs(TheEdge) * 5 < 100 * TheLine)
    => /\ TheResult.confidence = "Medium"
       /\ TheResult.recommendation =
            IF ~IsMainLine THEN "Pass (Alt Line)"
            ELSE IF TheEdge >= 100000 THEN "Over"
            ELSE IF TheEdge <= 0 - 100000 THEN "Under"
            ELSE "Pass"

C8_Witness ==
  /\ WithLine /\ TheLine > 0 /\ Abs(TheEdge) * 10 >= 100 * TheLine
  /\ Abs(TheEdge) * 5 < 100 * TheLine
  /\ IsMainLine /\ Abs(TheEdge) >= 50000 /\ Abs(TheEdge) < 100000
  /\ TheResult.recommendation = "Pass"

\* C9: with a market line and |edge|/line >= 0.20, confidence is Low and the
\* recommendation is plain Pass off the main line, else Over if edge >= 2.0,
\* Under if edge <= -2.0, Pass otherwise.
C9_LowTier ==
  (WithLine /\ TheLine > 0 /\ Abs(TheEdge) * 5 >= 100 * TheLine)
    => /\ TheResult.confidence = "Low"
       /\ TheResult.recommendation =
            IF ~IsMainLine THEN "Pass"
            ELSE IF TheEdge >= 200000 THEN "Over"
            ELSE IF TheEdge <= 0 - 200000 THEN "Under"
            ELSE "Pass"

C9_Witness ==
  /\ WithLine /\ TheLine > 0 /\ Abs(TheEdge) * 5 >= 100 * TheLine
  /\ ~IsMainLine /\ Abs(TheEdge) >= 200000
  /\ TheResult.recommendation = "Pass"

\* C10: a prediction without a market line is Enhanced Statistical, recommends
\* No Line Available, has no line and no edge, is the statistical estimate (to one
\* decimal) and carries the estimator's tier; a prediction is Vegas+ Hybrid exactly
\* when a line was selected.
C10_NoLineFallback ==
  Predicted
    => /\ IsNone(ret.vegas_data)
            => /\ TheResult.model_type = "Enhanced Statistical"
               /\ TheResult.recommendation = "No Line Available"
               /\ IsNone(TheResult.vegas_line) /\ IsNone(TheResult.edge)
               /\ TheResult.prediction = Some(Round1(TheEstimate))
               /\ TheResult.confidence = Val(ret.stat_prediction).confidence
       /\ TheResult.model_type = "Vegas+ Hybrid" <=> ~IsNone(ret.vegas_data)

C10_Witness ==
  /\ Predicted /\ IsNone(ret.vegas_data)
  /\ TheResult.confidence = "Medium"
  /\ PropRows(ret.athlete_id, ret.game_id, prop_type_mapping[ret.stat_type]) = {}

----------------------------------------------------------------------------
(* C11 - C20 *)

\* the target game of the call has no row in basic_events
GameAbsent == ~\E be \in basic_events : be.event_id = ret.game_id

\* the call resolved no box-score row of the player for the target game, so
\* neither the opponent nor the roster of the game is known to it
NoFeed == IsNone(OpponentResult(ret.athlete_id, ret.game_id))

\* C11: when no opponent or roster row can be resolved for the target game, the
\* opponent adjustment is exactly 0.0, the teammate boost is exactly 1.0 and the
\* games_analyzed reported is 0 (never missing), and no exception is raised.
C11_NeutralWhenNoFeed ==
  (ret.op = "predict_stat" /\ NoFeed) =>
    /\ ret.raised = ""
    /\ Predicted =>
         /\ Val(ret.stat_prediction).opponent_adj_raw = 0
         /\ Val(ret.stat_prediction).teammate_adj_raw = 0
         /\ Val(ret.stat_prediction).games_analyzed = Some(0)

\* C13: the teammate boost is the single factor 1 + 0.125 * k for k missing star
\* teammates, applied once to baseline + trend adjustment + opponent adjustment.
C13_TeammateBoost ==
  Predicted =>
    LET sp == Val(ret.stat_prediction)
        k == Cardinality(sp.missing_stars)
        running == sp.baseline + sp.trend_adj + sp.opponent_adj_raw
    IN  /\ sp.teammate_adj_raw = 125 * k
        /\ TheEstimate = (running * (Milli + 125 * k)) \div Milli

\* two star teammates are missing from the target game
C13_Witness ==
  /\ Predicted
  /\ Cardinality(Val(ret.stat_prediction).missing_stars) = 2
  /\ Val(ret.stat_prediction).baseline > 0

\* C17: a second call of predict_stat with the same arguments on the same store
\* returns what the first returned, in every field.
C17_Deterministic ==
  ret.op = "predict_stat" =>
    \A vegas_data \in get_prop_line(ret.athlete_id, ret.game_id, ret.stat_type) :
      predict_stat(ret.athlete_id, ret.game_id, ret.stat_type, vegas_data).value = ret.value

\* C20: for a target game that basic_events does not hold, predict_stat raises
\* nothing, uses the default season, and returns a prediction exactly when the
\* player has at least 3 qualifying games in that season (the insufficient-history
\* error otherwise).
C20_AbsentGameUsesDefault ==
  (ret.op = "predict_stat" /\ GameAbsent) =>
    /\ ret.raised = ""
    /\ ret.season = DefaultSeason
    /\ Predicted <=> Cardinality(GameLogRows(ret.athlete_id, DefaultSeason)) >= 3
    /\ Predicted \/ ReturnedError

C20_Witness ==
  /\ ret.op = "predict_stat" /\ GameAbsent /\ Predicted
  /\ Cardinality(GameLogRows(ret.athlete_id, DefaultSeason)) = 3

\* the estimator has returned an estimate
Estimated ==
  /\ ret.op = "calculate_statistical_prediction"
  /\ ret.value.exc = ""
  /\ ~IsNone(ret.value.prediction)

\* the game log the estimator of the call read
TheLog == get_player_game_log(ret.athlete_id, ret.season, ret.game_id)

\* the attempts of the entries of TheLog, <<>> where the field does not parse
TheAttempts ==
  LET log == TheLog
  IN  [i \in 1..Len(log) |-> parse_fga(log[i].fieldGoalsMade_fieldGoalsAttempted)]

PriorGames(team_id) ==
  { tb \in team_boxscores :
      /\ tb.away_team_id = team_id \/ tb.home_team_id = team_id
      /\ ~IsNone(EventDate(ret.game_id)) /\ ~IsNone(EventDate(tb.game_id))
      /\ Val(EventDate(tb.game_id)) < Val(EventDate(ret.game_id)) }

\* the 10 most recent of them
RecentGames(team_id) ==
  { tb \in PriorGames(team_id) :
      Cardinality({ o \in PriorGames(team_id) :
                      Val(EventDate(o.game_id)) > Val(EventDate(tb.game_id)) }) < 10 }

\* what a team allowed in the games S, summed, in thousandths
RECURSIVE SumAllowed(_, _, _)
SumAllowed(S, team_id, stat_type) ==
  IF S = {} THEN 0
  ELSE LET tb == CHOOSE x \in S : TRUE
           away == tb.away_team_id = team_id
           v == CASE stat_type = "points" ->
                       IF away THEN tb.home_score ELSE tb.away_score
                  [] stat_type = "rebounds" ->
                       IF away THEN tb.home_totalRebounds ELSE tb.away_totalRebounds
                  [] stat_type = "assists" ->
                       IF away THEN tb.home_assists ELSE tb.away_assists
                  [] OTHER -> 0
       IN  v * Milli + SumAllowed(S \ {tb}, team_id, stat_type)

\* C15: get_opponent_recent_defense returns (mean allowed over the opponent's up to
\* 10 most recent games before the target game - league average of the stat) * 0.70
\* when there are at least 3 such games, and 0.0 with games_analyzed the number
\* found when there are fewer; more allowed than the league average gives a
\* positive adjustment, less a negative one.
C15_OpponentAdjustment ==
  ret.op = "get_opponent_recent_defense" =>
    LET S == RecentGames(ret.opponent_team_id)
        n == Cardinality(S)
        league == CASE ret.stat_type = "points" -> 114500
                    [] ret.stat_type = "rebounds" -> 44000
                    [] ret.stat_type = "assists" -> 27000
                    [] OTHER -> 0
    IN  /\ ret.value.exc = ""
        /\ ret.value.games_analyzed = n
        /\ n < 3 => ret.value.adjustment = 0
        /\ n >= 3 =>
             LET avg == SumAllowed(S, ret.opponent_team_id, ret.stat_type) \div n
             IN  /\ ret.value.adjustment = ((avg - league) * 70) \div 100
                 /\ avg > league => ret.value.adjustment > 0
                 /\ avg < league => ret.value.adjustment < 0

\* C16: the tier of the estimator is High exactly when the coefficient of
\* variation of the last 10 values is below 0.3 and at least 10 games were used,
\* Medium when it is not High, the coefficient is below 0.5 and at least 5 games
\* were used, and Low otherwise; fewer than 5 games and a baseline of 0 give Low.
C16_ConfidenceTier ==
  Estimated =>
    LET log == TheLog
        values == Column(log, ret.stat_type)
        n == Len(values)
        tier == ret.value.confidence
        high == CvBelow(TailN(values, 10), ret.value.baseline, 3, 10) /\ n >= 10
        medium == ~high /\ CvBelow(TailN(values, 10), ret.value.baseline, 1, 2) /\ n >= 5
    IN  /\ ret.value.games_used = n
        /\ tier = (IF high THEN "High" ELSE IF medium THEN "Medium" ELSE "Low")
        /\ n < 5 => tier = "Low"
        /\ ret.value.baseline = 0 => tier = "Low"

\* a steady player with 10 games is High
C16_Witness ==
  /\ Estimated
  /\ ret.value.confidence = "High"
  /\ ret.value.games_used >= 10

\* the call of predict_stat of an iteration succeeded: it returned a dict without
\* the key error
Succeeded(call) == call.raised = "" /\ "error" \notin DOMAIN Val(call.value)

\* the entries of the pairs whose call succeeded, in the order of the pairs
SucceededEntries(calls, pairs, game_id) ==
  LET kept == SelectSeq([k \in 1..Len(pairs) |-> k], LAMBDA k : Succeeded(calls[k]))
  IN  [j \in 1..Len(kept) |->
         BatchEntry(pairs[kept[j]][1], game_id, pairs[kept[j]][2],
                    Val(calls[kept[j]].value))]

\* some course of the loops over pairs whose succeeded entries are value
SomeCourseGives(value, pairs, game_id) ==
  \E calls \in BatchCalls(pairs, game_id) : value = SucceededEntries(calls, pairs, game_id)

\* C12: a batch raises nothing and returns exactly the entries of the (player, stat)
\* pairs whose predict_stat succeeds, in player-then-stat order, whatever way the
\* other pairs fail
C12_BatchOmitsFailures ==
  ret.op = "get_game_predictions" =>
    /\ ret.raised = ""
    /\ \E players \in RowOrders(BatchPlayers(ret.game_id)) :
         SomeCourseGives(ret.value,
                         LoopPairs(players, StatTypesOrDefault(ret.stat_types)),
                         ret.game_id)

\* C18: a step that ends a call of predict_stat or of get_game_predictions leaves
\* every table as it was, and a step that changes a table is a call of
\* save_prediction
C18_PredictionLeavesStore ==
  [][/\ ret'.op \in {"predict_stat", "get_game_predictions"} => tables' = tables
     /\ tables' # tables => ret'.op = "save_prediction"]_vars

\* a batch has returned predictions while the table of saved predictions holds rows
C18_Witness ==
  /\ ret.op = "get_game_predictions"
  /\ ret.raised = ""
  /\ ret.value # <<>>
  /\ predictions # {}

\* what predict_stat may give for the arguments of thread t when it is the only call
Alone(t) ==
  { predict_stat(threads[t].athlete_id, threads[t].game_id, threads[t].stat_type,
                 vegas_data) :
    vegas_data \in get_prop_line(threads[t].athlete_id, threads[t].game_id,
                                 threads[t].stat_type) }

\* C19: a call of predict_stat that ran while calls for other tuples were running
\* ends with an outcome it may have when it is the only call on the store
C19_ConcurrentIndependent ==
  \A t \in Threads : threads[t].pc = "done" => threads[t].result \in Alone(t)

\* a call that returned a prediction has ended while the call of another player,
\* which was running during it, is at its last query
C19_Witness ==
  \E t \in Threads, u \in Threads :
    /\ threads[t].pc = "done"
    /\ threads[t].overlapped
    /\ threads[t].result.raised = ""
    /\ ~IsNone(threads[t].result.stat_prediction)
    /\ threads[u].pc = "playing_stars"
    /\ threads[u].athlete_id # threads[t].athlete_id

----------------------------------------------------------------------------
(* C21 - C30 *)

\* the key of a saved row or of a dict
KeyOf(r) == <<r.game_id, r.athlete_id, r.stat_type>>

\* C21: the table of saved predictions holds at most one row for a (game_id,
\* athlete_id, stat_type); after a save the row of the key holds the values of that
\* save, and the rows of every other key are the rows held before
C21_OneRowPerKey ==
  [][/\ \A r1, r2 \in predictions' : KeyOf(r1) = KeyOf(r2) => r1 = r2
     /\ ret'.op = "save_prediction" =>
          /\ PredictionRow(ret'.prediction, ret'.now) \in predictions'
          /\ \A r \in predictions : KeyOf(r) # KeyOf(ret'.prediction) => r \in predictions'
          /\ \A r \in predictions' :
               KeyOf(r) # KeyOf(ret'.prediction) => r \in predictions]_vars

\* a save has replaced the row of its key by other values, beside the row of
\* another key
C21_Witness ==
  /\ ret.op = "save_prediction"
  /\ ret.replaced
  /\ ret.now = 2
  /\ \E r \in predictions : KeyOf(r) # KeyOf(ret.prediction) /\ r.created_at = 1
  /\ \E r \in predictions : KeyOf(r) = KeyOf(ret.prediction)
                            /\ r.predicted_value = ret.prediction.prediction

\* an odds string without its leading '+'
DropLeadingPlus(odds) == IF Len(odds) > 0 /\ odds[1] = "+" THEN Tail(odds) ELSE odds

\* the odds string writes an integer of [-200, +200]
WritesMainOdds(odds) ==
  /\ ~IsNone(PyInt(DropLeadingPlus(odds)))
  /\ 0 - 200 <= Val(PyInt(DropLeadingPlus(odds)))
  /\ Val(PyInt(DropLeadingPlus(odds))) <= 200

\* C22: the line get_prop_line selects is flagged main exactly when its over odds and
\* its under odds both write an integer of [-200, +200]
C22_MainLineFlag ==
  (ret.op = "get_prop_line" /\ ~IsNone(ret.value))
    => (Val(ret.value).has_odds
          <=> (WritesMainOdds(Val(ret.value).over_odds)
               /\ WritesMainOdds(Val(ret.value).under_odds)))

\* a line whose odds write integers, one of them outside the range, was selected and
\* flagged not main
C22_Witness ==
  /\ ret.op = "get_prop_line"
  /\ ~IsNone(ret.value)
  /\ ~Val(ret.value).has_odds
  /\ ~IsNone(OddsValue(Val(ret.value).over_odds))
  /\ ~IsNone(OddsValue(Val(ret.value).under_odds))
  /\ Val(OddsValue(Val(ret.value).over_odds)) < 0 - 200

\* C23: under every interleaving of get, set and clear on one key, no call raises,
\* and a get that returns a value returns one it read with an expiry later than the
\* clock reading it compared with
C23_CacheThreadSafe ==
  \A t \in Threads :
    threads[t].pc = "done" =>
      /\ threads[t].raised = ""
      /\ (threads[t].call.op = "get" /\ ~IsNone(threads[t].result))
           => (threads[t].result = frames[t].value /\ frames[t].now < frames[t].expiry)

\* the stat of a row of the game log, in thousandths
StatOf(r, stat_type) == Column(<<r>>, stat_type)[1]

RECURSIVE SumStat(_, _)
SumStat(S, stat_type) ==
  IF S = {} THEN 0
  ELSE LET r == CHOOSE x \in S : TRUE
       IN  StatOf(r, stat_type) + SumStat(S \ {r}, stat_type)

\* the n latest of the games S
LatestOf(S, n) == { r \in S : Cardinality({ o \in S : o.date > r.date }) < n }

\* C24: the estimate is (baseline + trend adjustment + opponent adjustment) times the
\* teammate boost, where the trend adjustment is a quarter of recent_5 - season_avg,
\* season_avg is the mean over all the qualifying games before the target game, and
\* recent_5 is the mean of the latest 5 of them, or the baseline when they are fewer
C24_EstimateArithmetic ==
  Estimated =>
    LET S == GamesBefore(ret.athlete_id, ret.game_id)
        v == ret.value
        season_avg == SumStat(S, ret.stat_type) \div Cardinality(S)
        recent_5 == IF Cardinality(S) >= 5
                    THEN SumStat(LatestOf(S, 5), ret.stat_type) \div 5
                    ELSE v.baseline
        trend_adj == ((recent_5 - season_avg) * 25) \div 100
    IN  /\ v.season_avg = season_avg
        /\ v.recent_5 = recent_5
        /\ v.trend_adj = trend_adj
        /\ v.prediction =
             Some(((v.baseline + trend_adj + v.opponent_adj_raw)
                     * (Milli + v.teammate_adj_raw)) \div Milli)

\* an estimate from more than 5 games, with a trend, an opponent adjustment and a
\* missing star
C24_Witness ==
  /\ Estimated
  /\ Cardinality(GamesBefore(ret.athlete_id, ret.game_id)) > 5
  /\ ret.value.trend_adj # 0
  /\ ret.value.opponent_adj_raw # 0
  /\ ret.value.teammate_adj_raw > 0

\* the positions at which query is in the list of queries q
Positions(q, query) == { i \in 1..Len(q) : q[i] = query }

\* C25: within a call of predict_stat the season is resolved first, the game log of
\* the estimator is read next and the market line is queried after it; a call that
\* ends in the insufficient-history error has not queried the market line; no query
\* is made twice
C25_LineAfterEstimator ==
  \A t \in Threads :
    Running(t) \/ threads[t].pc = "done" =>
      LET q == frames[t].queries
      IN  /\ \A query \in {"game_query", "get_prop_line", "get_player_game_log",
                           "opponent_query", "get_opponent_recent_defense", "stars",
                           "playing_stars"} : Cardinality(Positions(q, query)) <= 1
          /\ \A i \in Positions(q, "get_prop_line") :
               /\ \E j \in Positions(q, "game_query") : j < i
               /\ \E j \in Positions(q, "get_player_game_log") : j < i
          /\ (/\ threads[t].pc = "done"
              /\ threads[t].result.raised = ""
              /\ "error" \in DOMAIN Val(threads[t].result.value))
               => Positions(q, "get_prop_line") = {}

\* the rows of the games a teammate played for the team before the target game of
\* the call, in the season of the call
PlayedBefore(athlete_id) ==
  { r \in player_boxscores :
      /\ r.athlete_id = athlete_id
      /\ r.season = ret.season
      /\ r.athlete_didNotPlay = "0"
      /\ DateOf(r.game_id) < DateOf(ret.game_id) }

RECURSIVE SumRowPoints(_)
SumRowPoints(S) ==
  IF S = {} THEN 0
  ELSE LET r == CHOOSE x \in S : TRUE IN r.points + SumRowPoints(S \ {r})

\* C26: a teammate counted as a missing star averages more than 15 points over the
\* games played before the target game, has played more than one of them, and has
\* no played row in the target game
C26_MissingStar ==
  Estimated =>
    \A a \in ret.value.missing_stars :
      /\ a # ret.athlete_id
      /\ SumRowPoints(PlayedBefore(a)) > 15 * Cardinality(PlayedBefore(a))
      /\ Cardinality(PlayedBefore(a)) > 1
      /\ ~\E r \in player_boxscores :
            r.athlete_id = a /\ r.game_id = ret.game_id /\ r.athlete_didNotPlay = "0"

\* the labels of the factors of the returned dict, in order
FactorLabels == [i \in 1..Len(TheResult.factors) |-> TheResult.factors[i].label]

\* the place of a summary among the entries that follow the fixed ones
SummaryRank(label) ==
  CASE label = "Opponent defense" -> 1
    [] label = "Missing stars" -> 2
    [] label = "Usage" -> 3
    [] OTHER -> 0

\* C27: the factors of a hybrid result begin with market line, statistical
\* prediction, recent-5 form, season average, edge; the entries after them are
\* opponent-defense, missing-stars and usage summaries in that order, each at most
\* once, and each only when its quantity is not zero: the opponent adjustment, the
\* number of missing stars, the usage change
C27_FactorsOrder ==
  WithLine =>
    LET labels == FactorLabels
        sp == Val(ret.stat_prediction)
    IN  /\ Len(labels) >= 5
        /\ SubSeq(labels, 1, 5) = <<"Vegas line", "Statistical prediction",
                                    "Recent form (L5)", "Season average", "Edge vs Vegas">>
        /\ \A i \in 6..Len(labels) : SummaryRank(labels[i]) > 0
        /\ \A i, j \in 6..Len(labels) :
             i < j => SummaryRank(labels[i]) < SummaryRank(labels[j])
        /\ \A i \in 6..Len(labels) :
             /\ labels[i] = "Opponent defense" => sp.opponent_adj_raw # 0
             /\ labels[i] = "Missing stars" => sp.missing_stars # {}
             /\ labels[i] = "Usage" => sp.usage_info.usage_change # Some(0)

\* x lies between a and b, the ends included, whichever of them is the larger
Between(x, a, b) == (a <= x /\ x <= b) \/ (b <= x /\ x <= a)

\* C28: the direction of a recommendation agrees with the statistical estimate:
\* Over only with an estimate above the line, Under only with an estimate below it,
\* and the blended prediction lies between the line and the estimate, both as
\* computed and as returned to one decimal
C28_DirectionAgrees ==
  WithLine =>
    /\ TheResult.recommendation = "Over" => TheEstimate > TheLine
    /\ TheResult.recommendation = "Under" => TheEstimate < TheLine
    /\ Between(TheFinal, Fine(TheLine), Fine(TheEstimate))
    /\ Between(Val(TheResult.prediction), Round1(TheLine), TheResult.stat_prediction)

\* an Over whose blend is strictly inside the interval
C28_Witness ==
  /\ WithLine
  /\ TheResult.recommendation = "Over"
  /\ Fine(TheLine) < TheFinal /\ TheFinal < Fine(TheEstimate)

\* C29: on a main line with 0 < line <= 5 the High and Medium tiers never recommend
\* Over or Under, so Over and Under come only with confidence Low and an edge of at
\* least 2.0 points; on a main line with line >= 10 the Low tier never answers Pass
C29_TierBounds ==
  (WithLine /\ IsMainLine) =>
    /\ (0 < TheLine /\ TheLine <= 5000) =>
         /\ TheResult.confidence \in {"High", "Medium"}
              => TheResult.recommendation \notin {"Over", "Under"}
         /\ TheResult.recommendation \in {"Over", "Under"}
              => TheResult.confidence = "Low" /\ Abs(TheEdge) >= 200000
    /\ (TheLine >= 10000 /\ TheResult.confidence = "Low")
         => TheResult.recommendation # "Pass"

\* a Low answer on a main line of at least 10 whose edge is under 3.0 points
C29_Witness ==
  /\ WithLine /\ IsMainLine
  /\ TheLine >= 10000
  /\ TheResult.confidence = "Low"
  /\ TheResult.recommendation \in {"Over", "Under"}
  /\ Abs(TheEdge) < 300000

\* player_boxscores holds no row of the player of the call for the target game
NoRow ==
  ~\E pb \in player_boxscores :
     pb.game_id = ret.game_id /\ pb.athlete_id = ret.athlete_id

\* C30: the opponent and teammate adjusters are consulted only for a game in which
\* the player has a box-score row: without one the opponent adjustment is 0, the
\* teammate boost is 1 and the estimate is baseline + trend adjustment, whatever
\* the defense of the opponent and the star teammates out of the game
C30_NoRowNoAdjusters ==
  (Predicted /\ NoRow) =>
    LET sp == Val(ret.stat_prediction)
    IN  /\ sp.opponent_adj_raw = 0
        /\ sp.opponent_adj = 0
        /\ sp.teammate_adj_raw = 0
        /\ sp.teammate_boost = 0
        /\ sp.missing_stars = {}
        /\ TheEstimate = sp.baseline + sp.trend_adj

\* the game has been played without the player: T2, the opponent of his team T1,
\* has a defense that differs from the league's, a star of T1 is out of the game,
\* and the trend adjustment is not zero
C30_Witness ==
  /\ Predicted /\ NoRow
  /\ \E tb \in team_boxscores : tb.game_id = ret.game_id
  /\ \A pb \in player_boxscores : pb.athlete_id = ret.athlete_id => pb.team_id = "T1"
  /\ LET d == get_opponent_recent_defense("T2", ret.game_id, ret.season,
                                          ret.stat_type, NRecent)
     IN  d.exc = "" /\ d.adjustment # 0
  /\ get_teammate_context(ret.athlete_id, ret.game_id, "T1",
                          ret.season).missing_stars # {}
  /\ Val(ret.stat_prediction).trend_adj # 0

====
